---- MODULE Spec2Model ----
(***************************************************************************)
(* Model of src/src/reviewers/deepseek.js: the chunker, the retry          *)
(* controller, the chunk orchestrator and the result merger.               *)
(*                                                                         *)
(* Text is a sequence of tokens.  A token is a one-character string (the   *)
(* characters of code and of model responses) or a literal fragment of a  *)
(* template string of the program.  String concatenation is \o.            *)
(***************************************************************************)
EXTENDS Integers, Sequences, FiniteSets, TLC

(* ------------------------------ bounds --------------------------------- *)

\* largest number of chunks of one review
MaxChunks == 3
\* longest code text given to the chunker
MaxCodeLen == 5
\* largest chunk size given to the chunker
MaxChunkSize == 3
\* largest number of chunk results given to combineChunkResults
MaxMergeResults == 2
\* longest error detail in a response body of the remote API
MaxDetailLen == 2
\* largest number of chunks of a review whose timers and network calls are
\* followed until each has settled
MaxRaceChunks == 1
\* Math.random() returns one of the values r / RandomSteps, 0 <= r < RandomSteps
RandomSteps == 20
\* largest number of numbered items under one severity heading of a response
MaxItems == 1

(* --------------------------- program constants ------------------------- *)

MAX_RETRIES == 3
BASE_DELAY == 1000
MAX_DELAY == 10000
\* Math.max(100, ...) of line 202
DelayFloor == 100

VARIABLES
    \* splitCodeIntoChunks: its arguments, its position and its return value
    splitCode, splitSize, splitPc, splitOut,
    \* reviewWithDeepseek: whether config holds an API key
    hasApiKey,
    \* reviewWithDeepseek: position of the function body
    mainPc,
    \* chunks.length
    totalChunks,
    \* loop variable i of the launching loop (1-based: next chunk to launch)
    launchI,
    \* chunkStatus array
    chunkStatus,
    \* chunkResults array, in push order
    chunkResults,
    \* errors array, in push order
    errors,
    \* per chunk: position of processChunk / processChunkWithRetry
    taskPc,
    \* per chunk: loop variable attempt of processChunkWithRetry
    attempt,
    \* per chunk: local retryAttempts of processChunkWithRetry
    retryAttempts,
    \* per chunk: local lastError of processChunkWithRetry
    lastError,
    \* per chunk: number of calls of reviewCodeChunk made so far
    requests,
    \* per chunk: how the promise of processChunkWithRetry settled
    settled,
    \* per chunk: number of calls updateStatus('retrying') made so far
    retryingCalls,
    \* per chunk: the attempts whose timeout timer has not fired yet, whose
    \* network call has not settled yet, whose Promise.race is still pending
    timers, fetches, races,
    \* value returned by reviewWithDeepseek, or NoReport
    report,
    \* message of the error thrown by reviewWithDeepseek, or <<>>
    thrown,
    \* one call of a function checked on its own: which function, its
    \* arguments, its position and its outcome
    callFn, callArgs, callPc, callOut

splitVars == <<splitCode, splitSize, splitPc, splitOut>>
reviewVars == <<hasApiKey, mainPc, totalChunks, launchI, chunkStatus, chunkResults, errors,
                taskPc, attempt, retryAttempts, lastError, requests, settled,
                retryingCalls, report, thrown>>
callVars == <<callFn, callArgs, callPc, callOut>>
raceVars == <<timers, fetches, races>>
vars == <<splitCode, splitSize, splitPc, splitOut,
          hasApiKey, mainPc, totalChunks, launchI, chunkStatus, chunkResults,
          errors, taskPc, attempt, retryAttempts, lastError, requests, settled,
          retryingCalls, report, thrown, callFn, callArgs, callPc, callOut,
          timers, fetches, races>>

(* ------------------------------ text helpers --------------------------- *)

NL == "\n"

\* all texts over alphabet A of length at most n
TextsUpTo(A, n) == UNION {[1..k -> A] : k \in 0..n}

\* Array.prototype.join('') of a sequence of texts
RECURSIVE Concat(_)
Concat(ts) == IF ts = <<>> THEN <<>> ELSE Head(ts) \o Concat(Tail(ts))

\* Array.prototype.join(sep) of a sequence of texts
RECURSIVE Join(_, _)
Join(ts, sep) ==
    IF ts = <<>> THEN <<>>
    ELSE IF Len(ts) = 1 THEN ts[1]
    ELSE ts[1] \o sep \o Join(Tail(ts), sep)

\* String.prototype.split('\n'): n newlines give n + 1 lines
RECURSIVE SplitLinesFrom(_, _, _)
SplitLinesFrom(text, k, cur) ==
    IF k > Len(text) THEN <<cur>>
    ELSE IF text[k] = NL THEN <<cur>> \o SplitLinesFrom(text, k + 1, <<>>)
    ELSE SplitLinesFrom(text, k + 1, Append(cur, text[k]))

SplitLines(text) == SplitLinesFrom(text, 1, <<>>)

\* decimal rendering of a natural number in a template string
Digit == <<"0", "1", "2", "3", "4", "5", "6", "7", "8", "9">>

RECURSIVE ToStr(_)
ToStr(n) == IF n < 10 THEN <<Digit[n + 1]>>
            ELSE ToStr(n \div 10) \o <<Digit[(n % 10) + 1]>>

\* sub occurs in text as a contiguous run of tokens
IsInfix(sub, text) ==
    \E s \in 0..(Len(text) - Len(sub)) :
        \A k \in 1..Len(sub) : text[s + k] = sub[k]

(* ------------------------------- Chunker ------------------------------- *)

CodeAlphabet == {"a", "b", NL}

\* the for-of loop of splitCodeIntoChunks over lines[k..], with its locals
RECURSIVE ChunkLoop(_, _, _, _, _)
ChunkLoop(lines, k, currentChunk, chunks, chunkSize) ==
    IF k > Len(lines)
    THEN IF Len(currentChunk) > 0 THEN Append(chunks, currentChunk) ELSE chunks
    ELSE LET line == lines[k] IN
         IF Len(currentChunk) + Len(line) > chunkSize /\ Len(currentChunk) > 0
         THEN ChunkLoop(lines, k + 1, line \o <<NL>>,
                        Append(chunks, currentChunk), chunkSize)
         ELSE ChunkLoop(lines, k + 1, currentChunk \o line \o <<NL>>,
                        chunks, chunkSize)

splitCodeIntoChunks(code, chunkSize) ==
    IF Len(code) <= chunkSize THEN <<code>>
    ELSE ChunkLoop(SplitLines(code), 1, <<>>, <<>>, chunkSize)

(* ------------------------ inputs of one review ------------------------- *)

\* options.focusAreas, an array of strings
FocusAreas == << <<"security">> >>

Severities == <<"critical", "high", "medium", "low">>

\* The object parseReviewResponse returns (lines 462-472) for the response the
\* remote API gives for chunk chunkNumber.  The responses are inputs: chunks 1
\* and 2 report the same issue in different letter case, chunk 3 gets an empty
\* completion, further chunks get one issue each.
ParsedReview(chunkNumber, total) ==
    LET base == [model |-> <<"deepseek-chat">>,
                 focusAreas |-> FocusAreas,
                 chunkNumber |-> chunkNumber,
                 totalChunks |-> total]
        noIssues == [critical |-> <<>>, high |-> <<>>, medium |-> <<>>, low |-> <<>>]
    IN  CASE chunkNumber = 1 ->
               base @@ [summary |-> <<"S", "1">>,
                        issues |-> [noIssues EXCEPT !.high = << <<"N", "u", "l", "l">> >>],
                        recommendations |-> <<"R", NL, "Q">>,
                        strengths |-> <<"G">>,
                        rawResponse |-> <<"RAW", "1">>]
          [] chunkNumber = 2 ->
               base @@ [summary |-> <<"S", "2">>,
                        issues |-> [noIssues EXCEPT !.high = << <<"n", "u", "l", "l">> >>,
                                                    !.low = << <<"X">> >>],
                        recommendations |-> <<"r", NL, NL, "T">>,
                        strengths |-> <<"g">>,
                        rawResponse |-> <<"RAW", "2">>]
          [] chunkNumber = 3 ->
               base @@ [summary |-> <<>>,
                        issues |-> noIssues,
                        recommendations |-> <<>>,
                        strengths |-> <<>>,
                        rawResponse |-> <<>>]
          [] OTHER ->
               base @@ [summary |-> <<"S">> \o ToStr(chunkNumber),
                        issues |-> [noIssues EXCEPT !.critical = << <<"x">> >>],
                        recommendations |-> <<"T">>,
                        strengths |-> <<"H">>,
                        rawResponse |-> <<"RAW">> \o ToStr(chunkNumber)]

\* chunks[i].substring(0, 100) + '...' : the chunk texts are not modelled here
ChunkSample(chunkNumber) == <<"CODE">> \o ToStr(chunkNumber) \o <<"...">>

\* the ways one call of reviewCodeChunk rejects: through the request promise
\* (HTTP, transport and response-shape errors alike) or through the timer
ErrorKinds == {"DeepseekApiError", "DeepseekTimeoutError"}

(* ------------- reviewCodeChunk, lines 322-336: HTTP error ---------------- *)

\* A response body is a text of JSON lexemes and characters.  JSON.parse, for
\* the bodies used here: {"error":{"message":"<d>"}}, {"error":"<d>"},
\* {"detail":"<d>"} parse, anything else is a SyntaxError.
Quote == "\""

IsQuoted(text, from, to) ==
    /\ from < to /\ text[from] = Quote /\ text[to] = Quote
    /\ \A k \in (from + 1)..(to - 1) : text[k] # Quote

JsonParse(text) ==
    LET n == Len(text) IN
    IF /\ n >= 10 /\ SubSeq(text, 1, 5) = <<"{", "\"error\"", ":", "{", "\"message\"">>
       /\ text[6] = ":" /\ IsQuoted(text, 7, n - 2)
       /\ text[n - 1] = "}" /\ text[n] = "}"
    THEN [ok |-> TRUE,
          value |-> [error |-> [type |-> "object", message |-> SubSeq(text, 8, n - 3)]]]
    ELSE IF /\ n >= 6 /\ SubSeq(text, 1, 3) = <<"{", "\"error\"", ":">>
            /\ IsQuoted(text, 4, n - 1) /\ text[n] = "}"
    THEN [ok |-> TRUE,
          value |-> [error |-> [type |-> "string", string |-> SubSeq(text, 5, n - 2)]]]
    ELSE IF /\ n >= 6 /\ SubSeq(text, 1, 3) = <<"{", "\"detail\"", ":">>
            /\ IsQuoted(text, 4, n - 1) /\ text[n] = "}"
    THEN [ok |-> TRUE, value |-> [error |-> [type |-> "undefined"]]]
    ELSE [ok |-> FALSE]

\* line 328: errorData.error?.message || errorData.error || text
ErrorDetail(errorData, text) ==
    CASE errorData.error.type = "object" ->
            IF errorData.error.message # <<>> THEN errorData.error.message
            ELSE <<"[object Object]">>
      [] errorData.error.type = "string" ->
            IF errorData.error.string # <<>> THEN errorData.error.string ELSE text
      [] OTHER -> text

\* line 328: the error thrown inside the try block
ParsedFormError(response, errorData) ==
    [name |-> "DeepseekApiError",
     message |-> <<"DeepSeek API error: ">> \o ToStr(response.status) \o <<" - ">>
                 \o ErrorDetail(errorData, response.text),
     statusCode |-> response.status]

\* line 331: the error thrown by the catch block
RawFormError(response) ==
    [name |-> "DeepseekApiError",
     message |-> <<"DeepSeek API error: ">> \o ToStr(response.status) \o <<" ">>
                 \o response.statusText \o <<" - ">> \o response.text,
     statusCode |-> response.status]

\* lines 325-328: what the try block throws: JSON.parse's SyntaxError, or the
\* DeepseekApiError of line 328
TryBlockThrows(response) ==
    LET parsed == JsonParse(response.text) IN
    IF parsed.ok THEN ParsedFormError(response, parsed.value)
    ELSE [name |-> "SyntaxError", message |-> <<"Unexpected token">>]

\* lines 329-332: catch (e) catches whatever the try block threw, the error of
\* line 328 included, and throws the raw form
CatchBlockThrows(e, response) == RawFormError(response)

\* lines 323-333: the rejection of a response that is not ok
HttpError(response) == CatchBlockThrows(TryBlockThrows(response), response)

\* the failing response of the remote API used in the review
OverloadedResponse ==
    [status |-> 503, statusText |-> <<"Service Unavailable">>,
     text |-> <<"{", "\"error\"", ":", Quote, "o", "v", "e", "r", Quote, "}">>]

\* the error object a rejected reviewCodeChunk call carries
RequestError(kind, chunkNumber) ==
    IF kind = "DeepseekTimeoutError"
    THEN [name |-> kind,
          message |-> <<"DeepSeek API request timed out for chunk ">>
                      \o ToStr(chunkNumber)]
    ELSE [name |-> kind, message |-> HttpError(OverloadedResponse).message]

NoError == [name |-> "none", message |-> <<>>]
NoReport == [none |-> TRUE]
Unsettled == [state |-> "pending"]

(* --------------------------- Retry Controller -------------------------- *)

\* lines 176-179: a result obtained after retries carries the retry fields
AnnotateResult(result, retries) ==
    IF retries > 0
    THEN result @@ [retryAttempts |-> retries, retrySuccess |-> TRUE]
    ELSE result

\* lines 189-190: the error thrown after the last attempt
AnnotateError(error) ==
    error @@ [retryAttempts |-> MAX_RETRIES, retrySuccess |-> FALSE]

\* mutant of IsLastAttempt: the loop gives up one attempt early
IsLastAttemptOneEarly(a) == a = MAX_RETRIES - 1

\* mutant of IsLastAttempt: the loop makes one more retry
IsLastAttemptOneLate(a) == a = MAX_RETRIES + 1

\* line 187: the attempt that just failed was the last one
IsLastAttempt(a) == a = MAX_RETRIES

\* mutant of RetryAttemptsAt: retries counted from zero
RetryAttemptsFromZero(a) == a - 1

\* lines 166-170: the loop comes round for retry number a
RetryAttemptsAt(a) == a

(* ----------------------------- Result Merger --------------------------- *)

UpperCase == <<"A", "B", "C", "D", "E", "F", "G", "H", "I", "J", "K", "L", "M",
               "N", "O", "P", "Q", "R", "S", "T", "U", "V", "W", "X", "Y", "Z">>
LowerCase == <<"a", "b", "c", "d", "e", "f", "g", "h", "i", "j", "k", "l", "m",
               "n", "o", "p", "q", "r", "s", "t", "u", "v", "w", "x", "y", "z">>

UpperLetters == {UpperCase[u] : u \in 1..Len(UpperCase)}
LowerOfUpper ==
    [c \in UpperLetters |-> LowerCase[CHOOSE u \in 1..Len(UpperCase) : UpperCase[u] = c]]

\* String.prototype.toLowerCase
ToLowerCase(text) ==
    [k \in 1..Len(text) |->
        IF text[k] \in UpperLetters THEN LowerOfUpper[text[k]] ELSE text[k]]

WhiteSpace == {" ", NL, "\t", "\r"}

\* String.prototype.trim
RECURSIVE TrimStart(_)
TrimStart(text) ==
    IF text # <<>> /\ Head(text) \in WhiteSpace THEN TrimStart(Tail(text)) ELSE text

RECURSIVE TrimEnd(_)
TrimEnd(text) ==
    IF text # <<>> /\ text[Len(text)] \in WhiteSpace
    THEN TrimEnd(SubSeq(text, 1, Len(text) - 1))
    ELSE text

Trim(text) == TrimEnd(TrimStart(text))

\* the key both de-duplications use: item.toLowerCase().trim()
Normalize(text) == Trim(ToLowerCase(text))

\* lines 508-511: the labelled summary of the result at 1-based position index
LabelledSummary(result, index) ==
    <<"Chunk ">> \o ToStr(index) \o <<": ">>
    \o (IF result.summary = <<>> THEN <<"No summary available">> ELSE result.summary)

\* line 514
CombinedSummary(results) ==
    <<"Code Review Summary (">> \o ToStr(Len(results)) \o <<" chunks):", NL, NL>>
    \o Join([k \in 1..Len(results) |-> LabelledSummary(results[k], k)], <<NL, NL>>)

\* lines 527-543 visit the issues in this order: result by result, severity by
\* severity, issue by issue
RECURSIVE IssueVisits(_)
IssueVisits(results) ==
    IF results = <<>> THEN <<>>
    ELSE LET r == Head(results)
             ofSeverity(sev) ==
                 [k \in 1..Len(r.issues[sev]) |->
                     [severity |-> sev, issue |-> r.issues[sev][k]]]
         IN  ofSeverity("critical") \o ofSeverity("high") \o ofSeverity("medium")
             \o ofSeverity("low") \o IssueVisits(Tail(results))

\* mutant of DedupIssues: duplicates are tracked per severity
RECURSIVE DedupIssuesPerSeverity(_, _, _)
DedupIssuesPerSeverity(visits, uniqueIssues, combinedIssues) ==
    IF visits = <<>> THEN combinedIssues
    ELSE LET v == Head(visits)
             key == <<v.severity, Normalize(v.issue)>>
         IN  IF key \in uniqueIssues
             THEN DedupIssuesPerSeverity(Tail(visits), uniqueIssues, combinedIssues)
             ELSE DedupIssuesPerSeverity(Tail(visits), uniqueIssues \cup {key},
                     [combinedIssues EXCEPT ![v.severity] = Append(@, v.issue)])

\* lines 532-539: one set uniqueIssues for all severities
RECURSIVE DedupIssues(_, _, _)
DedupIssues(visits, uniqueIssues, combinedIssues) ==
    IF visits = <<>> THEN combinedIssues
    ELSE LET v == Head(visits)
             normalizedIssue == Normalize(v.issue)
         IN  IF normalizedIssue \in uniqueIssues
             THEN DedupIssues(Tail(visits), uniqueIssues, combinedIssues)
             ELSE DedupIssues(Tail(visits), uniqueIssues \cup {normalizedIssue},
                     [combinedIssues EXCEPT ![v.severity] = Append(@, v.issue)])

CombinedIssues(results) ==
    DedupIssues(IssueVisits(results), {},
                [critical |-> <<>>, high |-> <<>>, medium |-> <<>>, low |-> <<>>])

\* text.split(/\n+/).map(trim).filter(non-empty): every run of newlines separates
SelectNonEmpty(ts) == SelectSeq(ts, LAMBDA t : Len(t) > 0)

\* the pieces of a text between its blank lines
RECURSIVE ParagraphsFrom(_, _, _)
ParagraphsFrom(text, k, cur) ==
    IF k > Len(text) THEN <<cur>>
    ELSE IF text[k] = NL /\ k < Len(text) /\ text[k + 1] = NL
    THEN <<cur>> \o ParagraphsFrom(text, k + 2, <<>>)
    ELSE ParagraphsFrom(text, k + 1, Append(cur, text[k]))

Paragraphs(text) ==
    LET pieces == ParagraphsFrom(text, 1, <<>>)
    IN  SelectNonEmpty([k \in 1..Len(pieces) |-> Trim(pieces[k])])

\* mutant of SplitItems: the text is split at blank lines only
SplitItemsAtBlankLines(text) == Paragraphs(text)

\* lines 552-555 and 578-581: split(/\n+/), trim, filter: the lines of the
\* text that are not blank, trimmed
SplitItems(text) ==
    LET pieces == SplitLines(text)
    IN  SelectNonEmpty([k \in 1..Len(pieces) |-> Trim(pieces[k])])

\* lines 549-565 and 575-591 visit the items result by result
RECURSIVE ItemVisits(_, _)
ItemVisits(results, field) ==
    IF results = <<>> THEN <<>>
    ELSE SplitItems(Head(results)[field]) \o ItemVisits(Tail(results), field)

RECURSIVE DedupItems(_, _, _)
DedupItems(items, unique, formatted) ==
    IF items = <<>> THEN formatted
    ELSE LET normalized == Normalize(Head(items))
         IN  IF normalized \in unique
             THEN DedupItems(Tail(items), unique, formatted)
             ELSE DedupItems(Tail(items), unique \cup {normalized},
                             Append(formatted, Head(items)))

\* lines 567-569 and 593-595
CombinedItems(results, field) ==
    Join(DedupItems(ItemVisits(results, field), {}, <<>>), <<NL, NL>>)

\* line 615
CombinedRawResponse(results) ==
    Join([k \in 1..Len(results) |-> results[k].rawResponse],
         <<NL, NL, "-", "-", "-", NL, NL>>)

\* lines 598-605
IssueCountOf(issues) ==
    [critical |-> Len(issues.critical),
     high |-> Len(issues.high),
     medium |-> Len(issues.medium),
     low |-> Len(issues.low),
     total |-> Len(issues.critical) + Len(issues.high)
               + Len(issues.medium) + Len(issues.low)]

\* lines 507-618: the report merged from several results
MergedReport(results, focusAreas) ==
    LET combinedIssues == CombinedIssues(results) IN
    [model |-> <<"deepseek-chat">>,
     focusAreas |-> focusAreas,
     summary |-> CombinedSummary(results),
     issues |-> combinedIssues,
     issueCount |-> IssueCountOf(combinedIssues),
     recommendations |-> CombinedItems(results, "recommendations"),
     strengths |-> CombinedItems(results, "strengths"),
     rawResponse |-> CombinedRawResponse(results),
     processedChunks |-> Len(results),
     totalChunks |-> results[1].totalChunks]

\* mutant of combineChunkResults: a single result is merged like several
combineChunkResultsNoShortcut(results, focusAreas) ==
    MergedReport(results, focusAreas)

\* combineChunkResults for a non-empty array (an empty one makes it throw
\* 'No chunk results to combine'; reviewWithDeepseek never passes one)
combineChunkResults(results, focusAreas) ==
    IF Len(results) = 1 THEN results[1]
    ELSE MergedReport(results, focusAreas)

(* --------------------------- enhanceOutputFormat ----------------------- *)

HasField(r, f) == f \in DOMAIN r

\* lines 224-229: results.issueCount, or the counts of results.issues
EnhanceIssueCount(results) ==
    IF HasField(results, "issueCount") THEN results.issueCount
    ELSE [critical |-> Len(results.issues.critical),
          high |-> Len(results.issues.high),
          medium |-> Len(results.issues.medium),
          low |-> Len(results.issues.low)]

\* lines 234-237: counted from results.chunkResults, when the report has one
RetrySuccessCount(results) ==
    IF HasField(results, "chunkResults")
    THEN Cardinality({k \in 1..Len(results.chunkResults) :
                        /\ HasField(results.chunkResults[k], "retrySuccess")
                        /\ results.chunkResults[k].retrySuccess})
    ELSE 0

\* issues.map((issue, i) => `${i+1}. ${issue}`).join('\n')
NumberedList(issues) ==
    Join([k \in 1..Len(issues) |-> ToStr(k) \o <<".", " ">> \o issues[k]], <<NL>>)

\* lines 240-250
QuickStats(results) ==
    LET issueCount == EnhanceIssueCount(results)
        totalIssues == issueCount.critical + issueCount.high
                       + issueCount.medium + issueCount.low
        processed == IF HasField(results, "processedChunks") /\ results.processedChunks # 0
                     THEN results.processedChunks ELSE 1
        total == IF HasField(results, "totalChunks") /\ results.totalChunks # 0
                 THEN results.totalChunks ELSE 1
        retrySuccessCount == RetrySuccessCount(results)
    IN  <<NL, "## Quick Stats", NL, "- **Total Issues**: ">> \o ToStr(totalIssues)
        \o <<NL, "- **Critical**: ">> \o ToStr(issueCount.critical)
        \o <<NL, "- **High**: ">> \o ToStr(issueCount.high)
        \o <<NL, "- **Medium**: ">> \o ToStr(issueCount.medium)
        \o <<NL, "- **Low**: ">> \o ToStr(issueCount.low)
        \o <<NL, "- **Focus Areas**: ">> \o Join(results.focusAreas, <<", ">>)
        \o <<NL, "- **Chunks Processed**: ">> \o ToStr(processed) \o <<"/">> \o ToStr(total)
        \o <<NL>>
        \o (IF retrySuccessCount > 0
            THEN <<"- **Chunks Recovered**: ">> \o ToStr(retrySuccessCount)
                 \o <<" (via retry mechanism)">>
            ELSE <<>>)
        \o <<NL>>

\* lines 253-267
KeyIssues(results) ==
    LET issueCount == EnhanceIssueCount(results) IN
    IF issueCount.critical > 0 \/ issueCount.high > 0
    THEN <<NL, "## Key Issues to Address", NL, NL>>
         \o (IF issueCount.critical > 0
             THEN <<"### Critical Issues", NL>>
                  \o NumberedList(results.issues.critical) \o <<NL>>
             ELSE <<>>)
         \o <<NL, NL>>
         \o (IF issueCount.high > 0
             THEN <<"### High Priority Issues", NL>>
                  \o NumberedList(results.issues.high) \o <<NL>>
             ELSE <<>>)
         \o <<NL>>
    ELSE <<>>

\* lines 273-275
RecoveryNote(results) ==
    IF RetrySuccessCount(results) > 0
    THEN <<NL, NL, "**Note:** ">> \o ToStr(RetrySuccessCount(results))
         \o <<" chunk(s) initially failed but were successfully recovered through the automatic retry mechanism.">>
    ELSE <<>>

\* lines 222-278: rewrites results.summary
enhanceOutputFormat(results) ==
    [results EXCEPT !.summary =
        QuickStats(results) \o KeyIssues(results) \o <<NL, "**", NL, NL>>
        \o results.summary \o RecoveryNote(results)]

(* ------------------- reviewWithDeepseek, lines 121-140 ------------------ *)

\* line 42
MissingKeyMessage ==
    <<"DeepSeek API key not found. Set DEEPSEEK_API_KEY or NEXT_PUBLIC_DEEPSEEK_API_KEY in .env or .aicodereviewrc">>

\* mutant of AllChunksFailedMessage: the most recent error is named
AllChunksFailedMessageLast(errs) ==
    <<"All ">> \o ToStr(Len(errs)) \o <<" chunks failed to process. First error: ">>
    \o errs[Len(errs)].error

\* line 123
AllChunksFailedMessage(errs) ==
    <<"All ">> \o ToStr(Len(errs)) \o <<" chunks failed to process. First error: ">>
    \o errs[1].error

\* line 134
PartialFailureWarning(errs, total) ==
    <<"<U+26A0 U+FE0F>", " Note: ">> \o ToStr(Len(errs)) \o <<" of ">> \o ToStr(total)
    \o <<" chunks failed to process. The review is incomplete.", NL, NL>>

\* mutant of WithErrorInformation: the summary is left as it is
WithErrorInformationNoWarning(combinedResults, errs, total) ==
    IF Len(errs) > 0
    THEN [errors |-> errs, partialSuccess |-> TRUE] @@ combinedResults
    ELSE combinedResults

\* lines 131-135
WithErrorInformation(combinedResults, errs, total) ==
    IF Len(errs) > 0
    THEN [summary |-> PartialFailureWarning(errs, total) \o combinedResults.summary,
          errors |-> errs,
          partialSuccess |-> TRUE] @@ combinedResults
    ELSE combinedResults

\* lines 128-140: the value reviewWithDeepseek returns
ReviewReport(results, errs, total) ==
    enhanceOutputFormat(
        WithErrorInformation(combineChunkResults(results, FocusAreas), errs, total))

(* ------------------------------ state machine -------------------------- *)

Chunks == 1..totalChunks

\* state before reviewWithDeepseek is called; the chunker is idle
Init ==
    /\ splitCode = <<>> /\ splitSize = 1 /\ splitPc = "idle" /\ splitOut = <<>>
    /\ hasApiKey \in BOOLEAN
    /\ mainPc = "start"
    /\ totalChunks = 0
    /\ launchI = 1
    /\ chunkStatus = <<>>
    /\ chunkResults = <<>>
    /\ errors = <<>>
    /\ taskPc = <<>>
    /\ attempt = <<>>
    /\ retryAttempts = <<>>
    /\ lastError = <<>>
    /\ requests = <<>>
    /\ settled = <<>>
    /\ retryingCalls = <<>>
    /\ timers = <<>> /\ fetches = <<>> /\ races = <<>>
    /\ report = NoReport
    /\ thrown = <<>>
    /\ callFn = "none" /\ callArgs = <<>> /\ callPc = "idle" /\ callOut = <<>>

\* lines 40-43: no API key, the call throws before any chunking
MissingApiKey ==
    /\ mainPc = "start"
    /\ ~hasApiKey
    /\ mainPc' = "thrown"
    /\ thrown' = MissingKeyMessage
    /\ UNCHANGED <<hasApiKey, totalChunks, launchI, chunkStatus, chunkResults, errors,
                   taskPc, attempt, retryAttempts, lastError, requests, settled, report,
                   retryingCalls>>
    /\ UNCHANGED splitVars
    /\ UNCHANGED callVars

\* lines 46-55: the code is split into n chunks (n >= 1 whatever the code) and
\* the arrays are created
StartReview(n) ==
    /\ mainPc = "start"
    /\ hasApiKey
    /\ mainPc' = "launch"
    /\ totalChunks' = n
    /\ launchI' = 1
    /\ chunkStatus' = [i \in 1..n |-> "pending"]
    /\ chunkResults' = <<>>
    /\ errors' = <<>>
    /\ taskPc' = [i \in 1..n |-> "created"]
    /\ attempt' = [i \in 1..n |-> 0]
    /\ retryAttempts' = [i \in 1..n |-> 0]
    /\ lastError' = [i \in 1..n |-> NoError]
    /\ requests' = [i \in 1..n |-> 0]
    /\ settled' = [i \in 1..n |-> Unsettled]
    /\ retryingCalls' = [i \in 1..n |-> 0]
    /\ UNCHANGED <<hasApiKey, report, thrown>>
    /\ UNCHANGED splitVars
    /\ UNCHANGED callVars

\* lines 77-116, one iteration: processChunk() runs synchronously up to its first
\* await, i.e. it sets the status and issues the first request (lines 81, 85, 173)
LaunchChunk ==
    /\ mainPc = "launch"
    /\ launchI <= totalChunks
    /\ chunkStatus' = [chunkStatus EXCEPT ![launchI] = "in-progress"]
    /\ taskPc' = [taskPc EXCEPT ![launchI] = "request"]
    /\ requests' = [requests EXCEPT ![launchI] = @ + 1]
    /\ launchI' = launchI + 1
    /\ mainPc' = IF launchI = totalChunks THEN "await" ELSE "launch"
    /\ UNCHANGED <<hasApiKey, totalChunks, chunkResults, errors, attempt, retryAttempts,
                   lastError, settled, report, thrown,
                   retryingCalls>>
    /\ UNCHANGED splitVars
    /\ UNCHANGED callVars

\* mutant of CallbacksRun: callbacks interleave with the launching loop
CallbacksRunDuringLaunch == mainPc \in {"launch", "await", "returned", "thrown"}

\* callbacks run only once the synchronous launching loop has ended
CallbacksRun == mainPc \in {"await", "returned", "thrown"}

\* mutant of AttemptSucceeds: the result is not collected
AttemptSucceedsUncollected(i) ==
    /\ CallbacksRun
    /\ taskPc[i] = "request"
    /\ LET result == AnnotateResult(ParsedReview(i, totalChunks), retryAttempts[i]) IN
        settled' = [settled EXCEPT ![i] = [state |-> "fulfilled", value |-> result]]
    /\ chunkStatus' = [chunkStatus EXCEPT ![i] = "completed"]
    /\ taskPc' = [taskPc EXCEPT ![i] = "done"]
    /\ UNCHANGED <<hasApiKey, mainPc, totalChunks, launchI, chunkResults, errors, attempt,
                   retryAttempts, lastError, requests, report, thrown, retryingCalls>>
    /\ UNCHANGED splitVars
    /\ UNCHANGED callVars

\* lines 173-181 and 98-101: the request of chunk i resolves
AttemptSucceeds(i) ==
    /\ CallbacksRun
    /\ taskPc[i] = "request"
    /\ LET result == AnnotateResult(ParsedReview(i, totalChunks), retryAttempts[i]) IN
        /\ settled' = [settled EXCEPT ![i] = [state |-> "fulfilled", value |-> result]]
        /\ chunkResults' = Append(chunkResults, result)
    /\ chunkStatus' = [chunkStatus EXCEPT ![i] = "completed"]
    /\ taskPc' = [taskPc EXCEPT ![i] = "done"]
    /\ UNCHANGED <<hasApiKey, mainPc, totalChunks, launchI, errors, attempt, retryAttempts,
                   lastError, requests, report, thrown,
                   retryingCalls>>
    /\ UNCHANGED splitVars
    /\ UNCHANGED callVars

\* mutant of AttemptFails: every failed attempt marks the chunk failed
AttemptFailsMarksFailed(i, kind) ==
    /\ CallbacksRun
    /\ taskPc[i] = "request"
    /\ ~IsLastAttempt(attempt[i])
    /\ lastError' = [lastError EXCEPT ![i] = RequestError(kind, i)]
    /\ taskPc' = [taskPc EXCEPT ![i] = "backoff"]
    /\ chunkStatus' = [chunkStatus EXCEPT ![i] = "failed"]
    /\ UNCHANGED <<hasApiKey, mainPc, totalChunks, launchI, chunkResults,
                   errors, attempt, retryAttempts, requests, settled, report, thrown,
                   retryingCalls>>
    /\ UNCHANGED splitVars
    /\ UNCHANGED callVars

\* lines 183-209: the request of chunk i rejects and retries are left: the
\* backoff timer is started
AttemptFails(i, kind) ==
    /\ CallbacksRun
    /\ taskPc[i] = "request"
    /\ ~IsLastAttempt(attempt[i])
    /\ lastError' = [lastError EXCEPT ![i] = RequestError(kind, i)]
    /\ taskPc' = [taskPc EXCEPT ![i] = "backoff"]
    /\ UNCHANGED <<hasApiKey, mainPc, totalChunks, launchI, chunkStatus, chunkResults,
                   errors, attempt, retryAttempts, requests, settled, report, thrown,
                   retryingCalls>>
    /\ UNCHANGED splitVars
    /\ UNCHANGED callVars

\* lines 183-192 and 102-111: the last request of chunk i rejects
AttemptFailsFinal(i, kind) ==
    /\ CallbacksRun
    /\ taskPc[i] = "request"
    /\ IsLastAttempt(attempt[i])
    /\ LET error == AnnotateError(RequestError(kind, i)) IN
        /\ lastError' = [lastError EXCEPT ![i] = RequestError(kind, i)]
        /\ settled' = [settled EXCEPT ![i] = [state |-> "rejected", reason |-> error]]
        /\ errors' = Append(errors, [chunkNumber |-> i,
                                     error |-> error.message,
                                     code |-> ChunkSample(i)])
    /\ chunkStatus' = [chunkStatus EXCEPT ![i] = "failed"]
    /\ taskPc' = [taskPc EXCEPT ![i] = "done"]
    /\ UNCHANGED <<hasApiKey, mainPc, totalChunks, launchI, chunkResults, attempt,
                   retryAttempts, requests, report, thrown,
                   retryingCalls>>
    /\ UNCHANGED splitVars
    /\ UNCHANGED callVars

\* mutant of BackoffElapsed: the retry is issued without a notification
BackoffElapsedSilent(i) ==
    /\ CallbacksRun
    /\ taskPc[i] = "backoff"
    /\ attempt' = [attempt EXCEPT ![i] = @ + 1]
    /\ retryAttempts' = [retryAttempts EXCEPT ![i] = RetryAttemptsAt(attempt[i] + 1)]
    /\ requests' = [requests EXCEPT ![i] = @ + 1]
    /\ taskPc' = [taskPc EXCEPT ![i] = "request"]
    /\ UNCHANGED <<hasApiKey, mainPc, totalChunks, launchI, chunkStatus, chunkResults, errors,
                   lastError, settled, report, thrown, retryingCalls>>
    /\ UNCHANGED splitVars
    /\ UNCHANGED callVars

\* lines 209, 163-173: the backoff timer of chunk i fires, the loop comes round,
\* updateStatus('retrying') is called (lines 166-170, 92-95) and the next
\* request is issued
BackoffElapsed(i) ==
    /\ CallbacksRun
    /\ taskPc[i] = "backoff"
    /\ attempt' = [attempt EXCEPT ![i] = @ + 1]
    /\ retryAttempts' = [retryAttempts EXCEPT ![i] = RetryAttemptsAt(attempt[i] + 1)]
    /\ retryingCalls' = [retryingCalls EXCEPT ![i] = @ + 1]
    /\ chunkStatus' = [chunkStatus EXCEPT ![i] = "retrying"]
    /\ requests' = [requests EXCEPT ![i] = @ + 1]
    /\ taskPc' = [taskPc EXCEPT ![i] = "request"]
    /\ UNCHANGED <<hasApiKey, mainPc, totalChunks, launchI, chunkResults, errors,
                   lastError, settled, report, thrown>>
    /\ UNCHANGED splitVars
    /\ UNCHANGED callVars

\* mutant of PromiseAllResolved: the wait ends with the first settled task
PromiseAnyResolved == \E i \in Chunks : taskPc[i] = "done"

\* line 119: Promise.all over promises that never reject (processChunk catches
\* every error) resolves when all of them have resolved
PromiseAllResolved == \A i \in Chunks : taskPc[i] = "done"

\* lines 119-125: every chunk failed
ThrowAllFailed ==
    /\ mainPc = "await"
    /\ PromiseAllResolved
    /\ Len(chunkResults) = 0 /\ Len(errors) > 0
    /\ thrown' = AllChunksFailedMessage(errors)
    /\ mainPc' = "thrown"
    /\ UNCHANGED <<hasApiKey, totalChunks, launchI, chunkStatus, chunkResults, errors,
                   taskPc, attempt, retryAttempts, lastError, requests, settled, report,
                   retryingCalls>>
    /\ UNCHANGED splitVars
    /\ UNCHANGED callVars

\* lines 119-140: some chunk succeeded
ReturnReport ==
    /\ mainPc = "await"
    /\ PromiseAllResolved
    /\ Len(chunkResults) > 0
    /\ report' = ReviewReport(chunkResults, errors, totalChunks)
    /\ mainPc' = "returned"
    /\ UNCHANGED <<hasApiKey, totalChunks, launchI, chunkStatus, chunkResults, errors,
                   taskPc, attempt, retryAttempts, lastError, requests, settled, thrown,
                   retryingCalls>>
    /\ UNCHANGED splitVars
    /\ UNCHANGED callVars

\* the review, the timers and network calls that lost their race left aside:
\* their settling changes nothing (SpecRace keeps track of them)
Next ==
    \/ MissingApiKey /\ UNCHANGED raceVars
    \/ \E n \in 1..MaxChunks : StartReview(n) /\ UNCHANGED raceVars
    \/ LaunchChunk /\ UNCHANGED raceVars
    \/ \E i \in Chunks : AttemptSucceeds(i) /\ UNCHANGED raceVars
    \/ \E i \in Chunks, kind \in ErrorKinds : AttemptFails(i, kind) /\ UNCHANGED raceVars
    \/ \E i \in Chunks, kind \in ErrorKinds : AttemptFailsFinal(i, kind) /\ UNCHANGED raceVars
    \/ \E i \in Chunks : BackoffElapsed(i) /\ UNCHANGED raceVars
    \/ ThrowAllFailed /\ UNCHANGED raceVars
    \/ ReturnReport /\ UNCHANGED raceVars

Spec == Init /\ [][Next]_vars

(* ------------------- the chunker on its own: SpecSplit ----------------- *)

InitSplit ==
    /\ splitCode \in TextsUpTo(CodeAlphabet, MaxCodeLen)
    /\ splitSize \in 1..MaxChunkSize
    /\ splitPc = "call"
    /\ splitOut = <<>>
    /\ hasApiKey = TRUE /\ mainPc = "start" /\ totalChunks = 0 /\ launchI = 1
    /\ chunkStatus = <<>> /\ chunkResults = <<>> /\ errors = <<>> /\ taskPc = <<>>
    /\ attempt = <<>> /\ retryAttempts = <<>> /\ lastError = <<>> /\ requests = <<>>
    /\ settled = <<>> /\ retryingCalls = <<>> /\ report = NoReport /\ thrown = <<>>
    /\ timers = <<>> /\ fetches = <<>> /\ races = <<>>
    /\ callFn = "none" /\ callArgs = <<>> /\ callPc = "idle" /\ callOut = <<>>

\* one call of splitCodeIntoChunks
Split ==
    /\ splitPc = "call"
    /\ splitOut' = splitCodeIntoChunks(splitCode, splitSize)
    /\ splitPc' = "done"
    /\ UNCHANGED <<splitCode, splitSize>>
    /\ UNCHANGED reviewVars
    /\ UNCHANGED raceVars
    /\ UNCHANGED callVars

NextSplit == Split

SpecSplit == InitSplit /\ [][NextSplit]_vars

(* -------------------------------- claims ------------------------------- *)

\* reviewWithDeepseek has thrown the all-chunks-failed error
AllFailedThrown == mainPc = "thrown" /\ hasApiKey

FailedChunks == {i \in Chunks : chunkStatus[i] = "failed"}

\* C1: reviewWithDeepseek neither returns a report nor throws the
\* all-chunks-failed error before every chunk's status is 'completed' or
\* 'failed'.
C1_WaitsForAllChunks ==
    (mainPc = "returned" \/ AllFailedThrown) =>
        \A i \in Chunks : chunkStatus[i] \in {"completed", "failed"}

\* the call returned with one chunk failed after its retries and another
\* completed after retries of its own
C1_Witness ==
    /\ mainPc = "returned"
    /\ \E i, j \in Chunks :
        /\ chunkStatus[i] = "failed" /\ requests[i] = 4
        /\ chunkStatus[j] = "completed" /\ requests[j] > 1

StatusMoves ==
    {<<"pending", "in-progress">>, <<"in-progress", "retrying">>,
     <<"in-progress", "completed">>, <<"in-progress", "failed">>,
     <<"retrying", "completed">>, <<"retrying", "failed">>}

\* C2: a chunk's status changes only along pending -> in-progress ->
\* (retrying)* -> completed | failed: completed and failed never change, pending
\* is left only for in-progress and never entered again.
C2_StatusTransitions ==
    [][\A i \in DOMAIN chunkStatus :
         (i \in DOMAIN chunkStatus' /\ chunkStatus'[i] # chunkStatus[i])
            => <<chunkStatus[i], chunkStatus'[i]>> \in StatusMoves]_vars

\* one chunk completed after a retry, another failed
C2_Witness ==
    \E i, j \in Chunks :
        /\ chunkStatus[i] = "completed" /\ retryAttempts[i] > 0
        /\ chunkStatus[j] = "failed"

\* C3: processChunkWithRetry rejects only after exactly 4 requests, never makes
\* a fifth, and the error it throws is the last attempt's error with
\* retryAttempts = 3 and retrySuccess = false.
C3_ExhaustedRetries ==
    \A i \in Chunks :
        /\ requests[i] <= 4
        /\ settled[i].state = "rejected" =>
            /\ requests[i] = 4
            /\ settled[i].reason.retryAttempts = 3
            /\ settled[i].reason.retrySuccess = FALSE
            /\ settled[i].reason.name = lastError[i].name
            /\ settled[i].reason.message = lastError[i].message

\* a chunk whose every attempt failed
C3_Witness == \E i \in Chunks : settled[i].state = "rejected"

\* C4: a result obtained after k failed attempts (1 <= k <= 3) carries
\* retryAttempts = k and retrySuccess = true; a result of the first attempt
\* carries neither field.
C4_RetrySuccessAnnotation ==
    \A i \in Chunks :
        settled[i].state = "fulfilled" =>
            LET k == requests[i] - 1
                v == settled[i].value
            IN  IF k = 0
                THEN ~HasField(v, "retryAttempts") /\ ~HasField(v, "retrySuccess")
                ELSE /\ k \in 1..3
                     /\ HasField(v, "retryAttempts") /\ v.retryAttempts = k
                     /\ HasField(v, "retrySuccess") /\ v.retrySuccess = TRUE

\* fail, fail, succeed for one chunk; first attempt succeeds for another
C4_Witness ==
    \E i, j \in Chunks :
        /\ settled[i].state = "fulfilled" /\ requests[i] = 3
        /\ settled[j].state = "fulfilled" /\ requests[j] = 1

AllFailedText(count, message) ==
    <<"All ">> \o ToStr(count) \o <<" chunks failed to process. First error: ">>
    \o message

\* C5 as stated: when every chunk fails, no report is returned and the thrown
\* message names the number of failed chunks and the error message of chunk
\* number 1.
C5_NamesChunkOneError ==
    AllFailedThrown =>
        /\ report = NoReport
        /\ thrown = AllFailedText(totalChunks, settled[1].reason.message)

\* C5 amended: when every chunk fails, no report is returned and the thrown
\* message names the number of failed chunks and the error message of the chunk
\* that failed first; the errors list is appended to in the order of failure.
C5_NamesFirstFailure ==
    /\ [](AllFailedThrown =>
            /\ report = NoReport
            /\ chunkResults = <<>>
            /\ Len(errors) = totalChunks
            /\ thrown = AllFailedText(totalChunks,
                            settled[errors[1].chunkNumber].reason.message))
    /\ [][\A i \in DOMAIN chunkStatus :
            (i \in DOMAIN chunkStatus' /\ chunkStatus[i] # "failed"
                /\ chunkStatus'[i] = "failed")
            => /\ Len(errors') = Len(errors) + 1
               /\ SubSeq(errors', 1, Len(errors)) = errors
               /\ errors'[Len(errors')].chunkNumber = i
               /\ errors'[Len(errors')].error = settled'[i].reason.message]_vars

\* every chunk failed, chunk 1 was not the first to fail, and the first
\* failure's message is not chunk 1's
C5_Witness ==
    /\ AllFailedThrown
    /\ totalChunks >= 2
    /\ errors[1].chunkNumber # 1
    /\ errors[1].error # settled[1].reason.message

\* C6: with f of N chunks failed, 1 <= f < N, the returned report has
\* partialSuccess = true, one errors entry per failed chunk with its 1-based
\* number, processedChunks = N - f and totalChunks = N.
C6_PartialFailureReport ==
    (mainPc = "returned" /\ FailedChunks # {}) =>
        LET f == Cardinality(FailedChunks) IN
        /\ HasField(report, "partialSuccess") /\ report.partialSuccess = TRUE
        /\ HasField(report, "errors") /\ Len(report.errors) = f
        /\ \A i \in FailedChunks :
             Cardinality({k \in 1..Len(report.errors) :
                            report.errors[k].chunkNumber = i}) = 1
        /\ HasField(report, "totalChunks") /\ report.totalChunks = totalChunks
        /\ HasField(report, "processedChunks")
        /\ report.processedChunks = totalChunks - f

\* rs ordered by ascending chunkNumber
SortByChunkNumber(rs) ==
    [k \in 1..Len(rs) |->
        rs[CHOOSE j \in 1..Len(rs) :
              Cardinality({m \in 1..Len(rs) :
                             rs[m].chunkNumber < rs[j].chunkNumber}) = k - 1]]

OrderFreeFields == {"summary", "issues", "recommendations", "strengths", "rawResponse"}

\* C7: the returned report does not depend on the order in which the chunk
\* tasks completed: its summary, issues, recommendations, strengths and
\* rawResponse are those of the run in which the same chunks complete in
\* chunk order.
C7_OrderIndependent ==
    mainPc = "returned" =>
        LET inChunkOrder == ReviewReport(SortByChunkNumber(chunkResults),
                                         SortByChunkNumber(errors), totalChunks)
        IN  \A f \in OrderFreeFields : report[f] = inChunkOrder[f]

\* C8: in a report merged from several results, the summary of every result is
\* labelled "Chunk <n>: " with the result's own chunkNumber.
C8_LabelIsChunkNumber ==
    (mainPc = "returned" /\ Len(chunkResults) >= 2) =>
        \A k \in 1..Len(chunkResults) :
            IsInfix(LabelledSummary(chunkResults[k], chunkResults[k].chunkNumber),
                    report.summary)

\* C9: the chunks returned by splitCodeIntoChunks, concatenated in order, are
\* the original text.
C9_RoundTrip ==
    splitPc = "done" => Concat(splitOut) = splitCode

\* C10: every chunk returned by splitCodeIntoChunks is at most targetSize long,
\* unless it contains a line that alone is longer than targetSize.
C10_ChunkLengthBound ==
    splitPc = "done" =>
        \A k \in 1..Len(splitOut) :
            \/ Len(splitOut[k]) <= splitSize
            \/ \E n \in 1..Len(SplitLines(splitOut[k])) :
                 Len(SplitLines(splitOut[k])[n]) > splitSize

(* ------------- combineChunkResults on its own: SpecMerge --------------- *)

\* the orchestrator and the chunker are idle
ReviewIdle ==
    /\ hasApiKey = TRUE /\ mainPc = "start" /\ totalChunks = 0 /\ launchI = 1
    /\ chunkStatus = <<>> /\ chunkResults = <<>> /\ errors = <<>> /\ taskPc = <<>>
    /\ attempt = <<>> /\ retryAttempts = <<>> /\ lastError = <<>> /\ requests = <<>>
    /\ settled = <<>> /\ retryingCalls = <<>> /\ report = NoReport /\ thrown = <<>>
    /\ timers = <<>> /\ fetches = <<>> /\ races = <<>>

SplitIdle ==
    splitCode = <<>> /\ splitSize = 1 /\ splitPc = "idle" /\ splitOut = <<>>

\* issue texts of the chunk results: the first two differ in letter case and
\* surrounding blanks only
IssueA == <<"N", "o">>
IssueALower == <<"n", "O", " ">>
IssueB == <<"X">>

\* the issues objects of the chunk results given to combineChunkResults
MergeIssueSets ==
    [critical : {<<>>, <<IssueALower>>},
     high : {<<>>, <<IssueA>>, <<IssueALower>>, <<IssueB>>, <<IssueA, IssueALower>>},
     medium : {<<>>, <<IssueB>>},
     low : {<<>>, <<IssueA>>}]

\* the array of chunk results made of the issues objects iss
MergeInput(iss) ==
    [k \in 1..Len(iss) |->
        [model |-> <<"deepseek-chat">>,
         focusAreas |-> FocusAreas,
         summary |-> <<"S">> \o ToStr(k),
         issues |-> iss[k],
         recommendations |-> <<"R">> \o ToStr(k),
         strengths |-> <<"G">>,
         rawResponse |-> <<"RAW">> \o ToStr(k),
         chunkNumber |-> k,
         totalChunks |-> Len(iss)]]

InitMerge ==
    /\ ReviewIdle /\ SplitIdle
    /\ callFn = "combineChunkResults"
    /\ \E n \in 1..MaxMergeResults :
         \E iss \in [1..n -> MergeIssueSets] : callArgs = MergeInput(iss)
    /\ callPc = "call"
    /\ callOut = <<>>

\* one call of combineChunkResults
Merge ==
    /\ callFn = "combineChunkResults"
    /\ callPc = "call"
    /\ callOut' = combineChunkResults(callArgs, FocusAreas)
    /\ callPc' = "done"
    /\ UNCHANGED <<callFn, callArgs>>
    /\ UNCHANGED reviewVars
    /\ UNCHANGED raceVars
    /\ UNCHANGED splitVars

NextMerge == Merge

SpecMerge == InitMerge /\ [][NextMerge]_vars

\* combineChunkResults has returned
Merged == callFn = "combineChunkResults" /\ callPc = "done"

SeverityRank == [critical |-> 1, high |-> 2, medium |-> 3, low |-> 4]
SeverityNames == {"critical", "high", "medium", "low"}

\* the places of the issues in the input: result, severity, position in the list
InputPlaces(results) ==
    {pl \in (1..Len(results)) \X SeverityNames \X (1..2) :
        pl[3] <= Len(results[pl[1]].issues[pl[2]])}

PlaceText(results, pl) == results[pl[1]].issues[pl[2]][pl[3]]

\* input order: result by result, severity by severity, issue by issue
PlaceBefore(p, q) ==
    \/ p[1] < q[1]
    \/ p[1] = q[1] /\ SeverityRank[p[2]] < SeverityRank[q[2]]
    \/ p[1] = q[1] /\ p[2] = q[2] /\ p[3] < q[3]

\* the first place in input order whose text has the key of text
FirstPlaceOf(results, text) ==
    CHOOSE p \in InputPlaces(results) :
        /\ Normalize(PlaceText(results, p)) = Normalize(text)
        /\ \A q \in InputPlaces(results) :
             Normalize(PlaceText(results, q)) = Normalize(text) =>
                 (q = p \/ PlaceBefore(p, q))

\* the entries of the merged report: severity and position
OutputPlaces(out) ==
    {pl \in SeverityNames \X (1..8) : pl[2] <= Len(out.issues[pl[1]])}

\* C11: in a report merged from several results no two issue entries have the
\* same lower-cased trimmed text, whatever their severities; every entry is the
\* first occurrence of that text in input order, filed under that occurrence's
\* severity; no text is lost; and the entries of a severity are in first-seen
\* order.
C11_IssuesDeduplicated ==
    (Merged /\ Len(callArgs) >= 2) =>
        LET places == OutputPlaces(callOut)
            textOf(pl) == callOut.issues[pl[1]][pl[2]]
        IN  /\ \A a, b \in places :
                 Normalize(textOf(a)) = Normalize(textOf(b)) => a = b
            /\ \A a \in places :
                 /\ \E p \in InputPlaces(callArgs) :
                      Normalize(PlaceText(callArgs, p)) = Normalize(textOf(a))
                 /\ LET first == FirstPlaceOf(callArgs, textOf(a))
                    IN  PlaceText(callArgs, first) = textOf(a) /\ first[2] = a[1]
            /\ \A p \in InputPlaces(callArgs) :
                 \E a \in places :
                     Normalize(textOf(a)) = Normalize(PlaceText(callArgs, p))
            /\ \A a, b \in places :
                 (a[1] = b[1] /\ a[2] < b[2]) =>
                     PlaceBefore(FirstPlaceOf(callArgs, textOf(a)),
                                 FirstPlaceOf(callArgs, textOf(b)))

\* two results report "No" under high in different letter case, and the
\* merged report has it once
C11_Witness ==
    /\ Merged /\ Len(callArgs) = 2
    /\ callArgs[1].issues.high = <<IssueA>>
    /\ callArgs[2].issues.high = <<IssueALower>>
    /\ callOut.issues.high = <<IssueA>>

\* C13: combineChunkResults applied to exactly one chunk result returns that
\* result, field for field.
C13_SingleResultUnchanged ==
    (Merged /\ Len(callArgs) = 1) =>
        /\ DOMAIN callOut = DOMAIN callArgs[1]
        /\ \A f \in DOMAIN callOut : callOut[f] = callArgs[1][f]

\* a single result with issues was given
C13_Witness ==
    /\ Merged /\ Len(callArgs) = 1
    /\ callArgs[1].issues.high = <<IssueA, IssueALower>>

\* C12: every report reviewWithDeepseek returns carries an issueCount whose four
\* severity counts are the lengths of the report's issue lists and whose total
\* is their sum.
C12_IssueCountInEveryReport ==
    mainPc = "returned" =>
        /\ HasField(report, "issueCount")
        /\ \A sev \in SeverityNames :
             report.issueCount[sev] = Len(report.issues[sev])
        /\ report.issueCount.total =
             report.issueCount.critical + report.issueCount.high
             + report.issueCount.medium + report.issueCount.low

(* ---------- the HTTP error path of reviewCodeChunk: SpecHttp ------------ *)

DetailAlphabet == {"a", "b"}
ErrorDetails == TextsUpTo(DetailAlphabet, MaxDetailLen)

\* bodies of failing responses: three JSON shapes and plain text
ErrorBodies ==
    {<<"{", "\"error\"", ":", "{", "\"message\"", ":", Quote>> \o d \o <<Quote, "}", "}">> :
        d \in ErrorDetails}
    \cup {<<"{", "\"error\"", ":", Quote>> \o d \o <<Quote, "}">> : d \in ErrorDetails}
    \cup {<<"{", "\"detail\"", ":", Quote>> \o d \o <<Quote, "}">> : d \in ErrorDetails}
    \cup {<<"<", "h", "t", "m", "l", ">">> \o d : d \in ErrorDetails}

ErrorResponses ==
    {[status |-> 400, statusText |-> <<"Bad Request">>, text |-> b] : b \in ErrorBodies}
    \cup {[status |-> 401, statusText |-> <<"Unauthorized">>, text |-> b] : b \in ErrorBodies}
    \cup {[status |-> 429, statusText |-> <<"Too Many Requests">>, text |-> b] : b \in ErrorBodies}
    \cup {[status |-> 500, statusText |-> <<"Internal Server Error">>, text |-> b] :
            b \in ErrorBodies}

InitHttp ==
    /\ ReviewIdle /\ SplitIdle
    /\ callFn = "reviewCodeChunk"
    /\ callArgs \in ErrorResponses
    /\ callPc = "call"
    /\ callOut = <<>>

\* the request promise of reviewCodeChunk rejects for a response that is not ok
RejectHttp ==
    /\ callFn = "reviewCodeChunk"
    /\ callPc = "call"
    /\ callOut' = HttpError(callArgs)
    /\ callPc' = "done"
    /\ UNCHANGED <<callFn, callArgs>>
    /\ UNCHANGED reviewVars
    /\ UNCHANGED raceVars
    /\ UNCHANGED splitVars

NextHttp == RejectHttp

SpecHttp == InitHttp /\ [][NextHttp]_vars

\* C14: for a response that is not ok the attempt fails with a DeepseekApiError
\* carrying the status code; when the body is valid JSON the message contains
\* the parsed error detail, and the raw-body form of the message is used only
\* when the body is not JSON.
C14_ParsedDetailForJsonBody ==
    (callFn = "reviewCodeChunk" /\ callPc = "done") =>
        LET parsed == JsonParse(callArgs.text)
            rawForm == <<"DeepSeek API error: ">> \o ToStr(callArgs.status) \o <<" ">>
                       \o callArgs.statusText \o <<" - ">> \o callArgs.text
        IN  /\ callOut.name = "DeepseekApiError"
            /\ callOut.statusCode = callArgs.status
            /\ parsed.ok =>
                 IsInfix(ErrorDetail(parsed.value, callArgs.text), callOut.message)
            /\ callOut.message = rawForm => ~parsed.ok

(* ------------------------ retry notifications --------------------------- *)

\* retries performed so far for chunk i: requests issued after the first one
RetriesPerformed(i) == IF requests[i] = 0 THEN 0 ELSE requests[i] - 1

\* C17: updateStatus('retrying') is invoked exactly once before each retry is
\* issued: the number of notifications of a chunk equals the number of its
\* retries, none precedes the initial attempt, and the chunk's status is
\* 'retrying' whenever a retried request is in flight.
C17_RetryingNotifications ==
    \A i \in Chunks :
        /\ retryingCalls[i] = RetriesPerformed(i)
        /\ requests[i] <= 1 => retryingCalls[i] = 0
        /\ (taskPc[i] = "request" /\ requests[i] > 1) => chunkStatus[i] = "retrying"
        /\ chunkStatus[i] = "retrying" => retryingCalls[i] >= 1

C17_Witness ==
    \E i \in Chunks :
        /\ taskPc[i] = "request" /\ requests[i] = MAX_RETRIES + 1
        /\ retryingCalls[i] = MAX_RETRIES /\ chunkStatus[i] = "retrying"

(* --------------------------- concurrent launch -------------------------- *)

\* chunks whose request is in flight
InFlight == {i \in Chunks : taskPc[i] = "request"}

\* some request of some chunk has settled
SomeRequestSettled ==
    \E i \in Chunks : taskPc[i] \in {"backoff", "done"} \/ requests[i] > 1

\* C18: all chunks are launched with no concurrency cap: before any chunk's
\* request settles every chunk has left 'pending' and has issued its first
\* request, so that all the chunks' requests are in flight together.
C18_AllLaunchedBeforeAnySettles ==
    /\ SomeRequestSettled =>
         \A j \in Chunks : requests[j] >= 1 /\ chunkStatus[j] # "pending"
    /\ (mainPc = "await" /\ ~SomeRequestSettled) =>
         Cardinality(InFlight) = totalChunks

C18_Witness ==
    /\ mainPc = "await" /\ totalChunks = MaxChunks /\ ~SomeRequestSettled
    /\ Cardinality(InFlight) = MaxChunks

(* ------- reviewCodeChunk: the network call raced against the timer ------- *)

Attempts == 1..(MAX_RETRIES + 1)

\* mutant of RaceOf: a timer or network call settles the race of the attempt
\* that is running now
RaceOfCurrentAttempt(i, k) == requests[i]

\* line 348: the race a timer or network call of attempt k settles is the one
\* created by the same call of reviewCodeChunk
RaceOf(i, k) == k

\* lines 295-300, 348: a call of reviewCodeChunk for chunk i, the k-th, creates
\* its timer, its network call and their race
CreateRace(i, k) ==
    /\ timers' = [timers EXCEPT ![i] = @ \cup {k}]
    /\ fetches' = [fetches EXCEPT ![i] = @ \cup {k}]
    /\ races' = [races EXCEPT ![i] = @ \cup {k}]

RaceStartReview(n) ==
    /\ StartReview(n)
    /\ timers' = [i \in 1..n |-> {}]
    /\ fetches' = [i \in 1..n |-> {}]
    /\ races' = [i \in 1..n |-> {}]

RaceLaunchChunk == LaunchChunk /\ CreateRace(launchI, 1)

RaceBackoffElapsed(i) == BackoffElapsed(i) /\ CreateRace(i, requests[i] + 1)

\* a promise that has settled stays as it is: settling it again is a no-op
RaceAlreadySettled ==
    /\ UNCHANGED races
    /\ UNCHANGED reviewVars
    /\ UNCHANGED splitVars
    /\ UNCHANGED callVars

\* lines 300-345: the network call of attempt k of chunk i resolves with a
\* review
FetchResolves(i, k) ==
    /\ CallbacksRun
    /\ k \in fetches[i]
    /\ fetches' = [fetches EXCEPT ![i] = @ \ {k}]
    /\ UNCHANGED timers
    /\ IF RaceOf(i, k) \in races[i]
       THEN /\ races' = [races EXCEPT ![i] = @ \ {RaceOf(i, k)}]
            /\ AttemptSucceeds(i)
       ELSE RaceAlreadySettled

\* lines 322-334: the network call of attempt k of chunk i rejects
FetchRejects(i, k) ==
    /\ CallbacksRun
    /\ k \in fetches[i]
    /\ fetches' = [fetches EXCEPT ![i] = @ \ {k}]
    /\ UNCHANGED timers
    /\ IF RaceOf(i, k) \in races[i]
       THEN /\ races' = [races EXCEPT ![i] = @ \ {RaceOf(i, k)}]
            /\ \/ AttemptFails(i, "DeepseekApiError")
               \/ AttemptFailsFinal(i, "DeepseekApiError")
       ELSE RaceAlreadySettled

\* lines 295-297: the timer of attempt k of chunk i fires (it is never cleared)
TimerFires(i, k) ==
    /\ CallbacksRun
    /\ k \in timers[i]
    /\ timers' = [timers EXCEPT ![i] = @ \ {k}]
    /\ UNCHANGED fetches
    /\ IF RaceOf(i, k) \in races[i]
       THEN /\ races' = [races EXCEPT ![i] = @ \ {RaceOf(i, k)}]
            /\ \/ AttemptFails(i, "DeepseekTimeoutError")
               \/ AttemptFailsFinal(i, "DeepseekTimeoutError")
       ELSE RaceAlreadySettled

NextRace ==
    \/ MissingApiKey /\ UNCHANGED raceVars
    \/ \E n \in 1..MaxRaceChunks : RaceStartReview(n)
    \/ RaceLaunchChunk
    \/ \E i \in Chunks, k \in Attempts : FetchResolves(i, k)
    \/ \E i \in Chunks, k \in Attempts : FetchRejects(i, k)
    \/ \E i \in Chunks, k \in Attempts : TimerFires(i, k)
    \/ \E i \in Chunks : RaceBackoffElapsed(i)
    \/ ThrowAllFailed /\ UNCHANGED raceVars
    \/ ReturnReport /\ UNCHANGED raceVars

SpecRace == Init /\ [][NextRace]_vars

\* in this step the timer, resp. the network call, of attempt k of chunk i settles
TimerSettles(i, k) == k \in timers[i] /\ k \notin timers'[i]
FetchSettles(i, k) == k \in fetches[i] /\ k \notin fetches'[i]

\* C15: within one attempt the first of network call and timer to settle
\* decides the outcome alone; when the other one settles later, be it while
\* a later retry of the chunk is running, nothing changes: no chunk status, no
\* collected result or error, no further attempt.
C15_LoserChangesNothing ==
    [][\A i \in Chunks, k \in Attempts :
         /\ (k \notin races[i] /\ (TimerSettles(i, k) \/ FetchSettles(i, k)))
              => UNCHANGED reviewVars
         /\ (k \in races[i] /\ TimerSettles(i, k))
              => /\ k \notin races'[i]
                 /\ lastError'[i].name = "DeepseekTimeoutError"
                 /\ taskPc'[i] \in {"backoff", "done"}
                 /\ chunkResults' = chunkResults
         /\ (k \in races[i] /\ FetchSettles(i, k))
              => /\ k \notin races'[i]
                 /\ \/ chunkStatus'[i] = "completed" /\ lastError'[i] = lastError[i]
                    \/ lastError'[i].name = "DeepseekApiError" /\ chunkResults' = chunkResults
         /\ (k \in races[i]) <=> (taskPc[i] = "request" /\ k = requests[i])
      ]_vars

\* both the timer and the network call of the first attempt have settled, one
\* of them after having lost the race, and a retry is in flight
C15_Witness ==
    \E i \in Chunks :
        /\ taskPc[i] = "request" /\ requests[i] >= 2
        /\ 1 \notin timers[i] /\ 1 \notin fetches[i]
        /\ timers[i] # {} /\ fetches[i] # {}

(* ------------------- the warning of a partial failure ------------------- *)

\* text p occurs in text t from position k on
OccursAt(p, t, k) ==
    /\ k >= 1 /\ k + Len(p) - 1 <= Len(t)
    /\ SubSeq(t, k, k + Len(p) - 1) = p

IsPrefix(p, t) == OccursAt(p, t, 1)

\* the warning stating that f of n chunks failed
WarningText(f, n) ==
    <<"<U+26A0 U+FE0F>", " Note: ">> \o ToStr(f) \o <<" of ">> \o ToStr(n)
    \o <<" chunks failed to process. The review is incomplete.", NL, NL>>

PartialFailureReturned ==
    mainPc = "returned" /\ FailedChunks # {} /\ Cardinality(FailedChunks) < totalChunks

\* C19 as stated: when at least one but not all chunks failed, the summary of
\* the returned report begins with the warning that states how many of the
\* total chunks failed.
C19_SummaryBeginsWithWarning ==
    PartialFailureReturned =>
        IsPrefix(WarningText(Cardinality(FailedChunks), totalChunks), report.summary)

\* C19, amended: when at least one but not all chunks failed, the summary of
\* the returned report begins with the Quick Stats block; the warning that
\* states how many of the total chunks failed occurs in it exactly once and
\* directly follows the separator line '**' that ends the blocks put on top.
C19_WarningFollowsQuickStats ==
    PartialFailureReturned =>
        LET warning == WarningText(Cardinality(FailedChunks), totalChunks)
            places == {k \in 1..Len(report.summary) : OccursAt(warning, report.summary, k)}
        IN  /\ IsPrefix(<<NL, "## Quick Stats", NL>>, report.summary)
            /\ Cardinality(places) = 1
            /\ \A k \in places :
                 /\ k > 4
                 /\ OccursAt(<<NL, "**", NL, NL>>, report.summary, k - 4)
                 /\ \A j \in 1..(k - 5) : report.summary[j] # "**"

C19_Witness ==
    /\ PartialFailureReturned
    /\ Cardinality(FailedChunks) = 1 /\ totalChunks = 3
    /\ Len(report.issues.high) > 0
    /\ IsInfix(<<"## Key Issues to Address">>, report.summary)

(* ------------- processChunkWithRetry: the delay before a retry ---------- *)

RECURSIVE Pow2(_)
Pow2(n) == IF n = 0 THEN 1 ELSE 2 * Pow2(n - 1)

Min(a, b) == IF a <= b THEN a ELSE b
Max(a, b) == IF a >= b THEN a ELSE b

\* mutant of ExponentialDelay: the exponent is the number of the retry
ExponentialDelayFromOne(att) == Min(MAX_DELAY, BASE_DELAY * Pow2(att + 1))

\* lines 195-198
ExponentialDelay(att) == Min(MAX_DELAY, BASE_DELAY * Pow2(att))

\* Delays are held as multiples of 1 / DelayScale milliseconds, which makes
\* the jitter of every random value r / RandomSteps a whole number.
DelayScale == 10 * RandomSteps

\* line 201: 0.2 * exponentialDelay * (Math.random() - 0.5), random = r / RandomSteps,
\* in units of 1 / DelayScale ms
Jitter(exponentialDelay, r) == exponentialDelay * (2 * r - RandomSteps)

\* line 202, in units of 1 / DelayScale ms
DelayWithJitter(att, r) ==
    Max(DelayFloor * DelayScale,
        ExponentialDelay(att) * DelayScale + Jitter(ExponentialDelay(att), r))

\* the failed attempts after which a delay is waited (line 186 leaves the
\* loop at attempt = MAX_RETRIES), and the random numbers
InitDelay ==
    /\ ReviewIdle /\ SplitIdle
    /\ callFn = "retryDelay"
    /\ callArgs \in [attempt : 0..(MAX_RETRIES - 1), random : 0..(RandomSteps - 1)]
    /\ callPc = "call"
    /\ callOut = <<>>

ComputeDelay ==
    /\ callFn = "retryDelay"
    /\ callPc = "call"
    /\ callOut' = DelayWithJitter(callArgs.attempt, callArgs.random)
    /\ callPc' = "done"
    /\ UNCHANGED <<callFn, callArgs>>
    /\ UNCHANGED reviewVars
    /\ UNCHANGED raceVars
    /\ UNCHANGED splitVars

NextDelay == ComputeDelay

SpecDelay == InitDelay /\ [][NextDelay]_vars

\* C16: the delay waited before retry k, k = 1..3, lies within 20% above or
\* below min(10000, 1000 * 2^(k-1)) ms, i.e. around 1000, 2000, 4000 ms, and
\* is never below 100 ms.  (callOut is the delay times DelayScale.)
C16_DelayWithinJitter ==
    (callFn = "retryDelay" /\ callPc = "done") =>
        LET k == callArgs.attempt + 1
            nominal == Min(10000, 1000 * Pow2(k - 1))
        IN  /\ k \in 1..3
            /\ nominal = <<1000, 2000, 4000>>[k]
            /\ 100 * callOut >= 80 * nominal * DelayScale
            /\ 100 * callOut <= 120 * nominal * DelayScale
            /\ callOut >= 100 * DelayScale

\* the delay before the third retry with the largest downward jitter
C16_Witness ==
    /\ callFn = "retryDelay" /\ callPc = "done"
    /\ callArgs.attempt = 2 /\ callArgs.random = 0
    /\ callOut < 4000 * DelayScale

(* ------------------ the section extractor, lines 445-750 ---------------- *)

\* the characters of a string literal
Chars(str) == [k \in 1..Len(str) |-> SubSeq(str, k, k)]

LowerLetters == {LowerCase[u] : u \in 1..Len(LowerCase)}
Digits == {Digit[d] : d \in 1..Len(Digit)}

\* \w of a regular expression
IsWordChar(c) == c \in UpperLetters \cup LowerLetters \cup Digits \cup {"_"}

\* \b of a regular expression, between positions k - 1 and k of text
WordBoundary(text, k) ==
    LET before == k - 1 >= 1 /\ k - 1 <= Len(text) /\ IsWordChar(text[k - 1])
        after == k >= 1 /\ k <= Len(text) /\ IsWordChar(text[k])
    IN  before # after

\* the first position from k on whose character is not in set cs: where a
\* greedy cs* that started at k ends
RECURSIVE SkipAll(_, _, _)
SkipAll(text, k, cs) ==
    IF k <= Len(text) /\ text[k] \in cs THEN SkipAll(text, k + 1, cs) ELSE k

\* \bname\b, flag i, matches text from position k on
NameAt(text, name, k) ==
    /\ k >= 1 /\ k + Len(name) - 1 <= Len(text)
    /\ ToLowerCase(SubSeq(text, k, k + Len(name) - 1)) = ToLowerCase(name)
    /\ WordBoundary(text, k)
    /\ WordBoundary(text, k + Len(name))

\* #{h}\s*\bname\b[:\s]*, flag i, matches text from position k on (h = 0: the
\* regular expression with no heading marker)
HeadingAt(text, name, h, k) ==
    /\ k + h - 1 <= Len(text)
    /\ \A j \in k..(k + h - 1) : text[j] = "#"
    /\ NameAt(text, name, IF h = 0 THEN k ELSE SkipAll(text, k + h, WhiteSpace))

\* the least element of a non-empty set of positions
LeastOf(positions) == CHOOSE m \in positions : \A o \in positions : m <= o

\* the match that starts at position k: the position of its first character
\* and the position after its last one, [:\s]* being greedy
HeadingMatchFrom(text, name, h, k) ==
    [found |-> TRUE, index |-> k,
     after |-> SkipAll(text,
                       (IF h = 0 THEN k ELSE SkipAll(text, k + h, WhiteSpace)) + Len(name),
                       WhiteSpace \cup {":"})]

LeftmostMatch(text, name, h, at) ==
    IF at = {} THEN [found |-> FALSE] ELSE HeadingMatchFrom(text, name, h, LeastOf(at))

\* text.match(regex) for that regular expression: the leftmost match
HeadingMatch(text, name, h) ==
    LeftmostMatch(text, name, h, {k \in 1..Len(text) : HeadingAt(text, name, h, k)})

\* the order of the regular expressions in sectionRegexes (lines 632-637)
HeadingVariants == <<0, 3, 2, 1>>

\* line 644: a match replaces the one kept when it starts earlier
EarlierMatch(match, cur) ==
    IF match.found /\ (~cur.found \/ match.index < cur.index) THEN match ELSE cur

\* lines 642-648: the loop over sectionRegexes, from the v-th on; cur is
\* [found, index, after] so far
RECURSIVE FindStart(_, _, _, _)
FindStart(text, name, v, cur) ==
    IF v > Len(HeadingVariants) THEN cur
    ELSE FindStart(text, name, v + 1,
                   EarlierMatch(HeadingMatch(text, name, HeadingVariants[v]), cur))

\* line 668: a match of a terminator moves the end when it lies after the
\* start and before the end kept
NearerEnd(match, startIndex, endIndex) ==
    IF match.found /\ match.index > startIndex /\ match.index < endIndex
    THEN match.index ELSE endIndex

\* lines 658-672 and 712-727: the loops over the terminating names and their
\* regular expressions, from name n, variant v on
RECURSIVE FindEnd(_, _, _, _, _, _)
FindEnd(text, names, n, v, startIndex, endIndex) ==
    IF n > Len(names) THEN endIndex
    ELSE IF v > Len(HeadingVariants) THEN FindEnd(text, names, n + 1, 1, startIndex, endIndex)
    ELSE FindEnd(text, names, n, v + 1, startIndex,
                 NearerEnd(HeadingMatch(text, names[n], HeadingVariants[v]),
                           startIndex, endIndex))

NoSection == [found |-> FALSE]

\* lines 650-673: the text from the end of the heading's match to the nearest
\* accepted terminator, trimmed; NoSection when the heading was not found
TextAfter(text, start, terminators) ==
    IF ~start.found THEN NoSection
    ELSE [found |-> TRUE,
          text |-> Trim(SubSeq(text, start.after,
                               FindEnd(text, terminators, 1, 1, start.after,
                                       Len(text) + 1) - 1))]

HeadedText(text, name, terminators) ==
    TextAfter(text, FindStart(text, name, 1, [found |-> FALSE]), terminators)

\* line 650: '' when the heading is not found
SectionText(headed) == IF headed.found THEN headed.text ELSE <<>>

\* lines 628-674
extractSection(text, sectionName, nextSectionNames) ==
    IF text = <<>> THEN <<>>
    ELSE SectionText(HeadedText(text, sectionName, nextSectionNames))

\* \d+\. matches text from position k on
NumberMarkerAt(text, k) ==
    /\ k >= 1 /\ k <= Len(text) /\ text[k] \in Digits
    /\ SkipAll(text, k, Digits) <= Len(text)
    /\ text[SkipAll(text, k, Digits)] = "."

\* the lookahead (?=\n\d+\.|\n\s*$|$) holds at position q of text
ItemEndsAt(text, q) ==
    \/ q = Len(text) + 1
    \/ /\ q <= Len(text) /\ text[q] = NL
       /\ \/ NumberMarkerAt(text, q + 1)
          \/ SkipAll(text, q + 1, WhiteSpace) = Len(text) + 1

\* where .+? starts when \s+ began at position blanks and the blanks end
\* before blanksEnd: after the blanks, or on the last blank when the blanks
\* reach the end of the text; 0 when \s+.+? cannot match
TextStartAfter(text, blanks, blanksEnd) ==
    IF blanksEnd = blanks THEN 0
    ELSE IF blanksEnd <= Len(text) THEN blanksEnd
    ELSE IF blanksEnd - blanks >= 2 THEN Len(text)
    ELSE 0

\* where .+? starts in a match of \d+\.\s+.+? that begins at position k; 0
\* when there is no match from k on
ItemTextStart(text, k) ==
    IF ~NumberMarkerAt(text, k) THEN 0
    ELSE TextStartAfter(text, SkipAll(text, k, Digits) + 1,
                        SkipAll(text, SkipAll(text, k, Digits) + 1, WhiteSpace))

\* where the lazy .+? that started at position first stops: the first
\* position after first at which the lookahead holds
ItemEnd(text, first) ==
    LeastOf({q \in (first + 1)..(Len(text) + 1) : ItemEndsAt(text, q)})

\* line 733: text.match(/\d+\.\s+.+?(?=\n\d+\.|\n\s*$|$)/gs), the matches from
\* position from on (<<>> stands for null as well)
RECURSIVE NumberedMatches(_, _)
RECURSIVE MatchesFrom(_, _, _)

\* the match that begins at position k and ends before position e, and those after it
MatchesFrom(text, k, e) == <<SubSeq(text, k, e - 1)>> \o NumberedMatches(text, e)

MatchesAt(text, at) ==
    IF at = {} THEN <<>>
    ELSE MatchesFrom(text, LeastOf(at), ItemEnd(text, ItemTextStart(text, LeastOf(at))))

NumberedMatches(text, from) ==
    MatchesAt(text, {k \in from..Len(text) : ItemTextStart(text, k) # 0})

Bullets == {"-", "*", "<U+2022>"}

\* \d+\.\s+ matches from position p on: the position after the match, else 0
NumberedMarkerEnd(text, p, dot) ==
    IF NumberMarkerAt(text, p) /\ SkipAll(text, dot + 1, WhiteSpace) > dot + 1
    THEN SkipAll(text, dot + 1, WhiteSpace)
    ELSE 0

\* [-*<U+2022>]\s* or \d+\.\s+ matches from position p on: the position after
\* the match, else 0
MarkerEndFrom(text, p) ==
    IF p <= Len(text) /\ text[p] \in Bullets
    THEN SkipAll(text, p + 1, WhiteSpace)
    ELSE NumberedMarkerEnd(text, p, SkipAll(text, p, Digits))

\* the position after a match of \n\s*[-*<U+2022>]\s*|\n\s*\d+\.\s+ that begins at
\* position k; 0 when there is none
MarkerEnd(text, k) ==
    IF text[k] # NL THEN 0 ELSE MarkerEndFrom(text, SkipAll(text, k + 1, WhiteSpace))

\* line 739: text.split(/\n\s*[-*<U+2022>]\s*|\n\s*\d+\.\s+/), from position k
\* on with cur the piece begun
RECURSIVE SplitAtMarkers(_, _, _)
RECURSIVE SplitAt(_, _, _, _)

SplitAt(text, k, cur, markerEnd) ==
    IF markerEnd # 0 THEN <<cur>> \o SplitAtMarkers(text, markerEnd, <<>>)
    ELSE SplitAtMarkers(text, k + 1, Append(cur, text[k]))

SplitAtMarkers(text, k, cur) ==
    IF k > Len(text) THEN <<cur>> ELSE SplitAt(text, k, cur, MarkerEnd(text, k))

TrimAll(ts) == [k \in 1..Len(ts) |-> Trim(ts[k])]

\* lines 733-746: the numbered matches when there are any, else the pieces
\* between markers that are not blank
ItemsFrom(numberedMatches, severityText) ==
    IF numberedMatches # <<>> THEN TrimAll(numberedMatches)
    ELSE SelectNonEmpty(TrimAll(SplitAtMarkers(severityText, 1, <<>>)))

\* lines 729-747: the items of the text of one severity
ListItems(severityText) == ItemsFrom(NumberedMatches(severityText, 1), severityText)

SeverityHeadings == <<Chars("Critical"), Chars("High"), Chars("Medium"), Chars("Low")>>

\* line 708
NextSeverities(severity) ==
    SelectSeq(SeverityHeadings, LAMBDA name : ToLowerCase(name) # ToLowerCase(severity))

\* line 703: no item when the severity is not found
SeverityItems(headed) == IF headed.found THEN ListItems(headed.text) ELSE <<>>

\* lines 682-750
extractIssuesBySeverity(issuesText, severity) ==
    IF issuesText = <<>> THEN <<>>
    ELSE SeverityItems(HeadedText(issuesText, severity, NextSeverities(severity)))

\* lines 447-452: the section names; each section ends at the name after it
SectionHeadings ==
    <<Chars("Summary"), Chars("Issues"), Chars("Recommendations"), Chars("Strengths")>>

\* lines 447-452: sections[n] is the text of the n-th section
Sections(reviewText) ==
    [n \in 1..Len(SectionHeadings) |->
        extractSection(reviewText, SectionHeadings[n],
                       IF n < Len(SectionHeadings) THEN <<SectionHeadings[n + 1]>> ELSE <<>>)]

\* lines 455-460: the items of each severity found in the Issues section
IssuesIn(issuesText) ==
    [s \in 1..Len(SeverityHeadings) |-> extractIssuesBySeverity(issuesText, SeverityHeadings[s])]

\* lines 462-472
ReviewObject(reviewText, focusAreas, chunkNumber, total, sections, issues) ==
    [model |-> <<"deepseek-chat">>,
     focusAreas |-> focusAreas,
     summary |-> IF sections[1] # <<>> THEN sections[1] ELSE reviewText,
     issues |-> [critical |-> issues[1], high |-> issues[2],
                 medium |-> issues[3], low |-> issues[4]],
     recommendations |-> sections[3],
     strengths |-> sections[4],
     rawResponse |-> reviewText,
     chunkNumber |-> chunkNumber,
     totalChunks |-> total]

ReviewOfSections(reviewText, focusAreas, chunkNumber, total, sections) ==
    ReviewObject(reviewText, focusAreas, chunkNumber, total, sections, IssuesIn(sections[2]))

\* lines 445-473
parseReviewResponse(reviewText, focusAreas, chunkNumber, total) ==
    ReviewOfSections(reviewText, focusAreas, chunkNumber, total, Sections(reviewText))

(* --------------- parseReviewResponse on its own: SpecParse --------------- *)

\* section bodies and issue texts of the responses of the remote API
SummaryBodies == {Chars("All good"), Chars("No issues found"), Chars(" Looks fine. ")}
RecommendationBodies == {Chars("Add tests"), Chars("Add tests:\n- unit\n- load")}
StrengthBodies == {Chars("Clear naming"), Chars("Good summary of issues")}

IssueTexts ==
    [critical |-> <<Chars("SQL injection"), Chars("Unsafe eval"), Chars("Weak hash")>>,
     high |-> <<Chars("No input validation"), Chars("Low test coverage"), Chars("Race")>>,
     medium |-> <<Chars("Magic numbers"), Chars("Long method"), Chars("Dead code")>>,
     low |-> <<Chars("Typo"), Chars("Naming"), Chars("Spacing")>>]

\* the numbered items 1..n of severity sev
NumberedItems(sev, n) == [k \in 1..n |-> ToStr(k) \o Chars(". ") \o IssueTexts[sev][k]]

\* the Issues sub-section of severity number s with n items; nothing when n = 0
SeverityBlock(s, n) ==
    IF n = 0 THEN <<>>
    ELSE Chars("### ") \o SeverityHeadings[s] \o <<NL>>
         \o Join(NumberedItems(Severities[s], n), <<NL>>) \o <<NL>>

\* a response in the format the prompt asks for
Response(summary, counts, recommendations, strengths) ==
    Chars("## Summary\n") \o summary \o Chars("\n## Issues\n")
    \o Concat([s \in 1..Len(Severities) |-> SeverityBlock(s, counts[s])])
    \o Chars("## Recommendations\n") \o recommendations
    \o Chars("\n## Strengths\n") \o strengths

InitParse ==
    /\ ReviewIdle /\ SplitIdle
    /\ callFn = "parseReviewResponse"
    /\ \E summary \in SummaryBodies, recommendations \in RecommendationBodies,
          strengths \in StrengthBodies, counts \in [1..Len(Severities) -> 0..MaxItems] :
         callArgs = [summary |-> summary, counts |-> counts,
                     recommendations |-> recommendations, strengths |-> strengths,
                     reviewText |-> Response(summary, counts, recommendations, strengths)]
    /\ callPc = "call"
    /\ callOut = <<>>

Parse ==
    /\ callFn = "parseReviewResponse"
    /\ callPc = "call"
    /\ callOut' = parseReviewResponse(callArgs.reviewText, FocusAreas, 1, 1)
    /\ callPc' = "done"
    /\ UNCHANGED <<callFn, callArgs>>
    /\ UNCHANGED reviewVars
    /\ UNCHANGED raceVars
    /\ UNCHANGED splitVars

NextParse == Parse

SpecParse == InitParse /\ [][NextParse]_vars

SpecExample ==
    Chars("## Summary\nAll good\n## Issues\n### Critical\n1. SQL injection\n### High\n1. No input validation\n## Recommendations\nAdd tests\n## Strengths\nClear naming")

\* C20: for a response with the sections '## Summary', '## Issues',
\* '## Recommendations', '## Strengths' in that order, '### <Severity>'
\* sub-headings and numbered items, parseReviewResponse returns each section's
\* body trimmed, each present severity's numbered items as separate entries
\* with their numbering, and an empty list for each absent severity; for the
\* example of the specification it returns the values given there.
C20_SectionsAndItems ==
    (callFn = "parseReviewResponse" /\ callPc = "done") =>
        /\ callOut.summary = Trim(callArgs.summary)
        /\ callOut.recommendations = Trim(callArgs.recommendations)
        /\ callOut.strengths = Trim(callArgs.strengths)
        /\ \A s \in 1..Len(Severities) :
             callOut.issues[Severities[s]] = NumberedItems(Severities[s], callArgs.counts[s])
        /\ callArgs.reviewText = SpecExample =>
             /\ callOut.summary = Chars("All good")
             /\ callOut.issues.critical = <<Chars("1. SQL injection")>>
             /\ callOut.issues.high = <<Chars("1. No input validation")>>
             /\ callOut.issues.medium = <<>> /\ callOut.issues.low = <<>>
             /\ callOut.recommendations = Chars("Add tests")
             /\ callOut.strengths = Chars("Clear naming")

(* ---------- merging recommendations and strengths: SpecMergeItems -------- *)

\* recommendations and strengths texts of the chunk results: a paragraph of
\* two lines, two items a blank line apart (the first the same as a line of
\* the paragraph but for case and blanks), no text, blank text, one line
ItemTexts ==
    {<<"A", NL, "b">>, <<"a", " ", NL, NL, "C">>, <<>>, <<" ", NL, NL, " ">>, <<"C">>}
StrengthTexts == {<<"G", NL, "g">>, <<>>}

\* the array of chunk results with recommendations recs[k] and strengths strs[k]
MergeItemsInput(recs, strs) ==
    [k \in 1..Len(recs) |->
        [model |-> <<"deepseek-chat">>,
         focusAreas |-> FocusAreas,
         summary |-> <<"S">> \o ToStr(k),
         issues |-> [critical |-> <<>>, high |-> <<>>, medium |-> <<>>, low |-> <<>>],
         recommendations |-> recs[k],
         strengths |-> strs[k],
         rawResponse |-> <<"RAW">> \o ToStr(k),
         chunkNumber |-> k,
         totalChunks |-> Len(recs)]]

InitMergeItems ==
    /\ ReviewIdle /\ SplitIdle
    /\ callFn = "combineChunkResults"
    /\ \E n \in 1..MaxMergeResults :
         \E recs \in [1..n -> ItemTexts], strs \in [1..n -> StrengthTexts] :
            callArgs = MergeItemsInput(recs, strs)
    /\ callPc = "call"
    /\ callOut = <<>>

SpecMergeItems == InitMergeItems /\ [][NextMerge]_vars

SeveralMerged == Merged /\ Len(callArgs) >= 2

\* the lines of the field of all the results, in order, trimmed
LinesOf(results, field) ==
    LET lines == Concat([k \in 1..Len(results) |-> SplitLines(results[k][field])])
    IN  [j \in 1..Len(lines) |-> Trim(lines[j])]

\* the items of a merged text: its lines that are not empty
MergedItems(text) == SelectNonEmpty(SplitLines(text))

\* C21 as stated, for field: every paragraph of an input (text between blank
\* lines), though of several lines, is one item of the merged text, items
\* being what blank lines separate there.
ParagraphsKept(field) ==
    \A k \in 1..Len(callArgs) :
        LET ps == Paragraphs(callArgs[k][field])
            out == Paragraphs(callOut[field])
        IN  \A j \in 1..Len(ps) : \E o \in 1..Len(out) : Normalize(out[o]) = Normalize(ps[j])

\* C21 as stated: when several results are merged, recommendations and
\* strengths are split into items at blank lines only, a paragraph of several
\* lines staying one item.
C21_SplitAtBlankLinesOnly ==
    SeveralMerged => ParagraphsKept("recommendations") /\ ParagraphsKept("strengths")

\* the merged field is made of the non-blank lines of the inputs: trimmed,
\* the first occurrence of each lower-cased trimmed text kept, in order of
\* first occurrence, joined by blank lines; the empty text when none remains
LinesMerged(field) ==
    LET lines == LinesOf(callArgs, field)
        items == MergedItems(callOut[field])
        firsts == {j \in 1..Len(lines) :
                     /\ lines[j] # <<>>
                     /\ \A i \in 1..(j - 1) : Normalize(lines[i]) # Normalize(lines[j])}
    IN  /\ callOut[field] = Join(items, <<NL, NL>>)
        /\ Len(items) = Cardinality(firsts)
        /\ \A o \in 1..Len(items) :
             \E j \in firsts :
                /\ items[o] = lines[j]
                /\ Cardinality({i \in firsts : i < j}) = o - 1
        /\ (firsts = {}) => callOut[field] = <<>>

\* C21, amended: when several results are merged, recommendations and
\* strengths are split into items at every line break, so each non-blank
\* line is an item of its own; items are trimmed, de-duplicated by lower-cased
\* trimmed text keeping the first occurrence, and rejoined with blank lines,
\* giving the empty text when no item remains.
C21_SplitAtEveryLineBreak ==
    SeveralMerged => LinesMerged("recommendations") /\ LinesMerged("strengths")

\* a paragraph of two lines is merged with a text that repeats one of its
\* lines in another case, and a result without strengths
C21_Witness ==
    /\ SeveralMerged
    /\ callArgs[1].recommendations = <<"A", NL, "b">>
    /\ callArgs[2].recommendations = <<"a", " ", NL, NL, "C">>
    /\ callArgs[1].strengths = <<>> /\ callArgs[2].strengths = <<>>
    /\ callOut.recommendations = <<"A", NL, NL, "b", NL, NL, "C">>
    /\ callOut.strengths = <<>>

(* ------- extractSection and extractIssuesBySeverity: SpecSection --------- *)

\* how a heading is written, and what the text has before the heading
HeadingStyles == {<<>>, Chars("## ")}
SectionBodies == {Chars("All good"), Chars("Fine")}

\* nothing, or a sentence that names the terminating heading
Mention(name) == {<<>>, Chars("See ") \o name \o Chars(" below.\n")}

\* a text with the heading of name, a body, the heading of next and a body
HeadedInput(before, style, name, body, nextStyle, next, nextBody) ==
    before \o style \o name \o Chars(":\n") \o body \o <<NL>>
    \o nextStyle \o next \o Chars(":\n") \o nextBody

InitSection ==
    /\ ReviewIdle /\ SplitIdle
    /\ \/ /\ callFn = "extractSection"
          /\ \E n \in 1..(Len(SectionHeadings) - 1), style \in HeadingStyles,
                nextStyle \in HeadingStyles, body \in SectionBodies :
               \E before \in Mention(SectionHeadings[n + 1]) :
                  callArgs = [name |-> SectionHeadings[n],
                              next |-> <<SectionHeadings[n + 1]>>,
                              text |-> HeadedInput(before, style, SectionHeadings[n], body,
                                                   nextStyle, SectionHeadings[n + 1],
                                                   Chars("Rest"))]
       \/ /\ callFn = "extractIssuesBySeverity"
          /\ \E s \in 1..Len(SeverityHeadings), o \in 1..Len(SeverityHeadings),
                style \in HeadingStyles, nextStyle \in HeadingStyles :
               /\ s # o
               /\ \E before \in Mention(SeverityHeadings[o]) :
                    callArgs = [name |-> SeverityHeadings[s],
                                next |-> NextSeverities(SeverityHeadings[s]),
                                text |-> HeadedInput(before, style, SeverityHeadings[s],
                                                     Chars("1. Typo"), nextStyle,
                                                     SeverityHeadings[o], Chars("1. Race"))]
    /\ callPc = "call"
    /\ callOut = <<>>

ExtractSection ==
    /\ callFn = "extractSection"
    /\ callPc = "call"
    /\ callOut' = extractSection(callArgs.text, callArgs.name, callArgs.next)
    /\ callPc' = "done"
    /\ UNCHANGED <<callFn, callArgs>>
    /\ UNCHANGED reviewVars
    /\ UNCHANGED raceVars
    /\ UNCHANGED splitVars

ExtractIssues ==
    /\ callFn = "extractIssuesBySeverity"
    /\ callPc = "call"
    /\ callOut' = extractIssuesBySeverity(callArgs.text, callArgs.name)
    /\ callPc' = "done"
    /\ UNCHANGED <<callFn, callArgs>>
    /\ UNCHANGED reviewVars
    /\ UNCHANGED raceVars
    /\ UNCHANGED splitVars

NextSection == ExtractSection \/ ExtractIssues

SpecSection == InitSection /\ [][NextSection]_vars

\* the positions of text where some regular expression of some terminating
\* name matches
TerminatorMatches(text, names) ==
    {k \in 1..Len(text) :
        \E n \in 1..Len(names), v \in 1..Len(HeadingVariants) :
            HeadingAt(text, names[n], HeadingVariants[v], k)}

\* the content the statement describes: from the end of the heading's match
\* to the nearest match of a terminating name after it, or to the end of the
\* text when there is none; trimmed
ContentUpTo(text, from, later) ==
    Trim(SubSeq(text, from, (IF later = {} THEN Len(text) + 1 ELSE LeastOf(later)) - 1))

ContentAfter(text, start, names) ==
    ContentUpTo(text, start.after, {k \in TerminatorMatches(text, names) : k > start.after})

StatedContent(text, name, names) ==
    ContentAfter(text, FindStart(text, name, 1, [found |-> FALSE]), names)

\* C22 as stated: the content extracted for a heading ends at the nearest
\* match of a terminating name that follows the heading's own match, whenever
\* there is one, and at the end of the text otherwise, whether or not the
\* terminating name also occurs earlier in the text.
C22_EndsAtNearestLaterTerminator ==
    /\ (callFn = "extractSection" /\ callPc = "done") =>
          callOut = StatedContent(callArgs.text, callArgs.name, callArgs.next)
    /\ (callFn = "extractIssuesBySeverity" /\ callPc = "done") =>
          callOut = ListItems(StatedContent(callArgs.text, callArgs.name, callArgs.next))

(* ------------------------ recovered chunks: C23 -------------------------- *)

\* the chunks whose result came from a retry
RecoveredChunks ==
    {i \in Chunks : settled[i].state = "fulfilled" /\ HasField(settled[i].value, "retrySuccess")}

\* C23 as stated: when at least one chunk succeeded only after one or more
\* retries, the report returned by reviewWithDeepseek has a chunkResults
\* field whose number of results with retrySuccess = true is the number of
\* those chunks, greater than zero, and its summary has the 'Chunks Recovered'
\* stat and the recovery note, for one chunk and for several.
C23_RecoveredChunksReported ==
    (mainPc = "returned" /\ RecoveredChunks # {}) =>
        /\ HasField(report, "chunkResults")
        /\ RetrySuccessCount(report) = Cardinality(RecoveredChunks)
        /\ IsInfix(<<"- **Chunks Recovered**: ">>, report.summary)
        /\ IsInfix(<<"**Note:** ">>, report.summary)

(* --------------------- every chunk accounted for: C24 -------------------- *)

AllTasksSettled == totalChunks > 0 /\ \A i \in Chunks : settled[i] # Unsettled

\* the number of entries of the sequence that are about chunk number i
EntriesOf(entries, i) == Cardinality({k \in 1..Len(entries) : entries[k].chunkNumber = i})

StatusCount(status) == Cardinality({i \in Chunks : chunkStatus[i] = status})

\* C24: once all chunk tasks have settled, every chunk has exactly one entry
\* in the collected results or exactly one in the errors, never both and
\* never neither; the 'completed' statuses are as many as the results, the
\* 'failed' ones as many as the errors, and the two sum to the number of
\* chunks. At every moment, results plus errors do not exceed the number of
\* chunks.
C24_EveryChunkAccountedFor ==
    /\ Len(chunkResults) + Len(errors) <= totalChunks
    /\ AllTasksSettled =>
        /\ \A i \in Chunks :
             \/ EntriesOf(chunkResults, i) = 1 /\ EntriesOf(errors, i) = 0
             \/ EntriesOf(chunkResults, i) = 0 /\ EntriesOf(errors, i) = 1
        /\ StatusCount("completed") = Len(chunkResults)
        /\ StatusCount("failed") = Len(errors)
        /\ Len(chunkResults) + Len(errors) = totalChunks

\* three chunks settled, the second one failed, the third the first to succeed
C24_Witness ==
    /\ AllTasksSettled
    /\ totalChunks = 3
    /\ Len(errors) = 1 /\ errors[1].chunkNumber = 2
    /\ Len(chunkResults) = 2 /\ chunkResults[1].chunkNumber = 3

(* ----------------------- termination: SpecLive --------------------------- *)

\* the synchronous code of reviewWithDeepseek and the continuations that are
\* ready run; every timeout timer and every backoff timer that was started
\* fires. Nothing is assumed of the network calls: they may never settle.
\* the step of ReturnReport, told by its guard and the move of mainPc: it is
\* enabled when ReturnReport is, and the only step of NextRace that it
\* describes is the one of ReturnReport
ReportReturned ==
    /\ mainPc = "await" /\ PromiseAllResolved /\ Len(chunkResults) > 0
    /\ mainPc' = "returned"

Fairness ==
    /\ WF_vars(MissingApiKey /\ UNCHANGED raceVars)
    /\ WF_vars(\E n \in 1..MaxRaceChunks : RaceStartReview(n))
    /\ WF_vars(RaceLaunchChunk)
    /\ \A i \in 1..MaxRaceChunks, k \in Attempts :
         WF_vars(i \in Chunks /\ TimerFires(i, k))
    /\ \A i \in 1..MaxRaceChunks : WF_vars(i \in Chunks /\ RaceBackoffElapsed(i))
    /\ WF_vars(ThrowAllFailed /\ UNCHANGED raceVars)
    /\ WF_mainPc(ReportReturned)

SpecLive == Init /\ [][NextRace]_vars /\ Fairness

\* the call has returned a report or thrown
ReviewSettled ==
    \/ mainPc = "returned" /\ report # NoReport
    \/ mainPc = "thrown" /\ thrown # <<>>

AllChunksEnded == \A i \in Chunks : chunkStatus[i] \in {"completed", "failed"}

\* at most MAX_RETRIES + 1 attempts and MAX_RETRIES backoff waits a chunk, no
\* wait after the last attempt, and a task that has ended has left its chunk
\* 'completed' or 'failed'
AttemptsBounded ==
    \A i \in Chunks :
        /\ requests[i] <= MAX_RETRIES + 1
        /\ retryingCalls[i] <= MAX_RETRIES
        /\ taskPc[i] = "backoff" => requests[i] <= MAX_RETRIES
        /\ taskPc[i] = "done" => chunkStatus[i] \in {"completed", "failed"}

\* C25: provided every timeout timer and backoff timer eventually fires,
\* reviewWithDeepseek eventually settles whatever the remote API does, even if
\* it never responds: each chunk reaches 'completed' or 'failed' after at most
\* 4 attempts and 3 backoff waits, none of them after the final failed
\* attempt, and the call then returns a report or throws.
C25_EventuallySettles ==
    /\ []AttemptsBounded
    /\ (mainPc = "launch") ~> (mainPc = "await" /\ AllChunksEnded)
    /\ [](ReviewSettled => AllChunksEnded)
    /\ <>ReviewSettled

\* the remote API never responded: all four network calls of a chunk are
\* still pending, its four timers have fired, and the call has thrown
C25_Witness ==
    \E i \in Chunks :
        /\ fetches[i] = Attempts /\ timers[i] = {}
        /\ requests[i] = MAX_RETRIES + 1 /\ retryingCalls[i] = MAX_RETRIES
        /\ chunkStatus[i] = "failed"
        /\ mainPc = "thrown"

====
